---- MODULE Spec2Model ----
(***************************************************************************)
(* A model of the request-signing engine of rust-oci-api:                  *)
(*   src/src/client/signer.rs   OciSigner::new and the sign_request family *)
(*   src/src/client/http.rs     OciClient::new, the owner of a signer      *)
(* Text is a sequence of characters (one-character strings, plus a few     *)
(* named atoms for PEM markers and key blobs); bytes are numbers 0..255.   *)
(***************************************************************************)
EXTENDS Integers, Sequences, FiniteSets, TLC

VARIABLES
  fs,        \* the file system: path -> file
  next_ino,  \* the number of the next file created
  signer,    \* slot -> the OciSigner built there (or being built, or dropped)
  call,      \* thread -> its sign call: arguments, locals, result
  now,       \* the system clock, an index into ClockValues
  load,      \* the KeyLoader::load call: input and result
  req,       \* thread -> its EmailClient operation and the HTTP request built
  builder,   \* an OciConfigBuilder: its fields, the setters called, the result
  env,       \* the process environment and the OciConfig::from_env call
  recipients,     \* a Recipients value (or its builder) and what it was given
  email_builder   \* an EmailBuilder: its fields and the result of build

vars ==
  <<fs, next_ino, signer, call, now, load, req, builder, env, recipients, email_builder>>

\* SystemTime::now() in seconds after the epoch, as the clock advances.
ClockValues == <<1672876800, 1672876801, 1709208000>>

\* ------------------------------------------------------------------------
\* Text and bytes
\* ------------------------------------------------------------------------

LF == "\n"

\* One non-ASCII scalar (U+00E9), to tell a byte length from a char count.
EAcute == "U+00E9"

\* Code 96 (the grave accent), which the lexer of this language cannot quote.
Backtick == "U+0060"

\* The printable ASCII characters, code 32 first.
Ascii ==
  <<" ", "!", "\"", "#", "$", "%", "&", "'", "(", ")", "*", "+", ",", "-", ".", "/",
    "0", "1", "2", "3", "4", "5", "6", "7", "8", "9", ":", ";", "<", "=", ">", "?",
    "@", "A", "B", "C", "D", "E", "F", "G", "H", "I", "J", "K", "L", "M", "N", "O",
    "P", "Q", "R", "S", "T", "U", "V", "W", "X", "Y", "Z", "[", "\\", "]", "^", "_",
    Backtick, "a", "b", "c", "d", "e", "f", "g", "h", "i", "j", "k", "l", "m", "n", "o",
    "p", "q", "r", "s", "t", "u", "v", "w", "x", "y", "z", "{", "|", "}", "~">>

AsciiSet == {Ascii[i] : i \in 1..Len(Ascii)}

\* The code of each modelled one-byte character.
OrdTable ==
  [c \in AsciiSet \cup {LF} |->
     IF c = LF THEN 10 ELSE 31 + (CHOOSE i \in 1..Len(Ascii) : Ascii[i] = c)]

Ord(c) == OrdTable[c]

\* str::as_bytes, one character: its UTF-8 encoding.
Utf8(c) == IF c = EAcute THEN <<195, 169>> ELSE <<Ord(c)>>

RECURSIVE BytesOfRange(_, _, _)
\* The UTF-8 bytes of s[lo..hi], by halves (a shallow recursion).
BytesOfRange(s, lo, hi) ==
  IF lo > hi THEN <<>>
  ELSE IF lo = hi THEN Utf8(s[lo])
  ELSE LET mid == (lo + hi) \div 2
       IN BytesOfRange(s, lo, mid) \o BytesOfRange(s, mid + 1, hi)

\* str::as_bytes: the UTF-8 bytes of a text (one byte for each character
\* when all are ASCII).
AsBytes(s) ==
  IF \A i \in 1..Len(s) : s[i] # EAcute
  THEN [i \in 1..Len(s) |-> Ord(s[i])]
  ELSE BytesOfRange(s, 1, Len(s))

\* char::to_lowercase on the modelled characters.
LowerChar(c) ==
  IF c \in AsciiSet /\ Ord(c) >= 65 /\ Ord(c) <= 90 THEN Ascii[Ord(c) + 32 - 31] ELSE c

\* str::to_lowercase
ToLowercase(s) == [i \in 1..Len(s) |-> LowerChar(s[i])]

RECURSIVE UsizeToString(_)
\* usize::to_string: decimal digits, most significant first.
UsizeToString(n) ==
  IF n < 10 THEN <<Ascii[n + 17]>>
  ELSE UsizeToString(n \div 10) \o <<Ascii[(n % 10) + 17]>>

\* str::contains / str::starts_with for a one-atom pattern.
Contains(s, atom) == \E i \in 1..Len(s) : s[i] = atom

\* ------------------------------------------------------------------------
\* base64 (general_purpose::STANDARD: the RFC 4648 alphabet, padded)
\* ------------------------------------------------------------------------

B64Alphabet ==
  <<"A", "B", "C", "D", "E", "F", "G", "H", "I", "J", "K", "L", "M", "N", "O", "P",
    "Q", "R", "S", "T", "U", "V", "W", "X", "Y", "Z", "a", "b", "c", "d", "e", "f",
    "g", "h", "i", "j", "k", "l", "m", "n", "o", "p", "q", "r", "s", "t", "u", "v",
    "w", "x", "y", "z", "0", "1", "2", "3", "4", "5", "6", "7", "8", "9", "+", "/">>

B64Char(sextet) == B64Alphabet[sextet + 1]

\* The sextet at place j (0..3) of a group of up to three bytes; absent
\* bytes count as zero.
Sextet(b1, b2, b3, j) ==
  CASE j = 0 -> b1 \div 4
    [] j = 1 -> (b1 % 4) * 16 + b2 \div 16
    [] j = 2 -> (b2 % 16) * 4 + b3 \div 64
    [] OTHER -> b3 % 64

\* Engine::encode: each group of three bytes gives four characters; a last
\* group of one or two bytes is padded with "=".
Base64Encode(b) ==
  LET n == Len(b)
      Byte(i) == IF i <= n THEN b[i] ELSE 0
  IN [i \in 1..(4 * ((n + 2) \div 3)) |->
        LET g == (i - 1) \div 4
            j == (i - 1) % 4
        IN IF 3 * g + j > n
           THEN "="
           ELSE B64Char(Sextet(Byte(3 * g + 1), Byte(3 * g + 2), Byte(3 * g + 3), j))]

\* ------------------------------------------------------------------------
\* Digest and signature primitives (the sha2 and rsa crates)
\* ------------------------------------------------------------------------

\* a * b mod n for a, b < n < 2^18, within 32-bit arithmetic.
MulMod(a, b, n) == (((a * (b \div 512)) % n) * 512 + a * (b % 512)) % n

RECURSIVE ModPow(_, _, _)
ModPow(b, e, n) ==
  IF e = 0 THEN 1
  ELSE LET h == ModPow(b, e \div 2, n)
           sq == MulMod(h, h, n)
       IN IF e % 2 = 1 THEN MulMod(sq, b, n) ELSE sq

\* RSA private keys: modulus n, private exponent d, modulus length k in bytes.
NoKey == [n |-> 0, d |-> 0, k |-> 0]
KeyA == [n |-> 201277, d |-> 133587, k |-> 3]
KeyB == [n |-> 200479, d |-> 39917, k |-> 3]
\* A key the parser accepts whose modulus is too short for the padded digest.
KeyShort == [n |-> 3233, d |-> 2753, k |-> 2]

RECURSIVE ToBytesBE(_, _)
ToBytesBE(x, k) == IF k = 0 THEN <<>> ELSE ToBytesBE(x \div 256, k - 1) \o <<x % 256>>

RECURSIVE DigestOfRange(_, _, _)
\* The position-weighted sum of b[lo..hi], by halves.
DigestOfRange(b, lo, hi) ==
  IF lo > hi THEN 0
  ELSE IF lo = hi THEN (b[lo] + 1) * (((lo * lo) % 251) + lo)
  ELSE LET mid == (lo + hi) \div 2
       IN (DigestOfRange(b, lo, mid) + DigestOfRange(b, mid + 1, hi)) % 65521

\* Sha256::new / update / finalize: a deterministic fixed-width digest of the
\* message bytes. The width is two bytes here and the compression a weighted
\* sum of the bytes; what the signer relies on (a value computed from the
\* bytes passed in and from nothing else) is kept.
Sha256(bytes) ==
  LET h == (27145 + 263 * Len(bytes) + DigestOfRange(bytes, 1, Len(bytes))) % 65521
  IN <<h \div 256, h % 256>>

\* A signature whose padding is salted with the time of signing.
RsaTrySignSalted(key, msg) ==
  LET h == Sha256(msg)
      em == (65536 + h[1] * 256 + h[2] + 4099 * now) % key.n
  IN IF key.k < Len(h) + 1 THEN [ok |-> FALSE, bytes |-> <<>>]
     ELSE [ok |-> TRUE, bytes |-> ToBytesBE(ModPow(em, key.d, key.n), key.k)]

\* SigningKey::<Sha256>::new(key).try_sign(msg): RSASSA-PKCS1-v1_5. The
\* encoded message is 0x01 followed by the digest; it must fit the modulus,
\* else the primitive reports an error. There is no random padding.
RsaTrySign(key, msg) ==
  LET h == Sha256(msg)
      em == 65536 + h[1] * 256 + h[2]
  IN IF key.k < Len(h) + 1
     THEN [ok |-> FALSE, bytes |-> <<>>]
     ELSE [ok |-> TRUE, bytes |-> ToBytesBE(ModPow(em, key.d, key.n), key.k)]

\* ------------------------------------------------------------------------
\* httpdate::fmt_http_date
\* ------------------------------------------------------------------------

Digit(n) == Ascii[n + 17]
Pad2(n) == <<Digit(n \div 10), Digit(n % 10)>>
Pad4(n) == Pad2(n \div 100) \o Pad2(n % 100)

WeekdayNames ==
  << <<"S","u","n">>, <<"M","o","n">>, <<"T","u","e">>, <<"W","e","d">>,
     <<"T","h","u">>, <<"F","r","i">>, <<"S","a","t">> >>
MonthNames ==
  << <<"J","a","n">>, <<"F","e","b">>, <<"M","a","r">>, <<"A","p","r">>,
     <<"M","a","y">>, <<"J","u","n">>, <<"J","u","l">>, <<"A","u","g">>,
     <<"S","e","p">>, <<"O","c","t">>, <<"N","o","v">>, <<"D","e","c">> >>

\* The civil date of a day number counted from 1970-01-01.
CivilFromDays(days) ==
  LET z == days + 719468
      era == z \div 146097
      doe == z - era * 146097
      yoe == (doe - doe \div 1460 + doe \div 36524 - doe \div 146096) \div 365
      doy == doe - (365 * yoe + yoe \div 4 - yoe \div 100)
      mp == (5 * doy + 2) \div 153
      d == doy - (153 * mp + 2) \div 5 + 1
      m == IF mp < 10 THEN mp + 3 ELSE mp - 9
      y == yoe + era * 400 + (IF m <= 2 THEN 1 ELSE 0)
  IN [year |-> y, month |-> m, day |-> d]

\* fmt_http_date(t): "Thu, 05 Jan 2023 00:00:00 GMT" for t seconds after the epoch.
FmtHttpDate(t) ==
  LET days == t \div 86400
      sod == t % 86400
      c == CivilFromDays(days)
  IN WeekdayNames[((days + 4) % 7) + 1] \o <<",", " ">> \o Pad2(c.day) \o <<" ">>
     \o MonthNames[c.month] \o <<" ">> \o Pad4(c.year) \o <<" ">>
     \o Pad2(sod \div 3600) \o <<":">> \o Pad2((sod % 3600) \div 60) \o <<":">>
     \o Pad2(sod % 60) \o <<" ", "G", "M", "T">>

\* ------------------------------------------------------------------------
\* Key material, configurations and the file system
\* ------------------------------------------------------------------------

BeginMarker == "-----BEGIN"
EndMarker == "-----END"
LabelRest == " PRIVATE KEY-----"

\* DER blobs (one atom each, standing for the base64 body of a PEM document).
DerA == "DER:KeyA"
DerB == "DER:KeyB"
DerShort == "DER:KeyShort"
DerJunk == "DER:junk"

Pem(der) == <<BeginMarker, LabelRest, LF, der, LF, EndMarker, LabelRest>>

\* RsaPrivateKey::from_pkcs8_pem on the text of a PEM document.
DecodePkcs8Pem(text) ==
  IF text = Pem(DerA) THEN [ok |-> TRUE, key |-> KeyA]
  ELSE IF text = Pem(DerB) THEN [ok |-> TRUE, key |-> KeyB]
  ELSE IF text = Pem(DerShort) THEN [ok |-> TRUE, key |-> KeyShort]
  ELSE [ok |-> FALSE, key |-> NoKey]

\* Files. ino tells one file from a later file of the same name.
NoFile == [exists |-> FALSE, content |-> <<>>, owner_only |-> FALSE, ino |-> 0]

PathKeyA == <<"/keys/a.pem">>
PathKeyJunk == <<"/keys/junk.pem">>
PathMissing == <<"/keys/missing.pem">>
KeyPaths == {PathKeyA, PathKeyJunk, PathMissing}

\* The number of names NamedTempFile can draw from, and of signers built.
MaxTmpNames == 2
NumSigners == 2
NumThreads == 2

TmpPath(i) == <<"/tmp/.tmp", Digit(i)>>
TmpPaths == {TmpPath(i) : i \in 1..MaxTmpNames}
AllPaths == KeyPaths \cup TmpPaths

\* RsaPrivateKey::read_pkcs8_pem_file
ReadPkcs8PemFile(fsys, path) ==
  IF path \in AllPaths /\ fsys[path].exists
  THEN DecodePkcs8Pem(fsys[path].content)
  ELSE [ok |-> FALSE, key |-> NoKey]

\* OciConfig values. None is the absent Option<String>.
NoneText == <<"None">>
IdentityX == [user_id |-> <<"u", "X">>, tenancy_id |-> <<"t", "X">>,
              fingerprint |-> <<"a", "a", ":", "0", "1">>]
IdentityY == [user_id |-> <<"u", "Y">>, tenancy_id |-> <<"t", "Y">>,
              fingerprint |-> <<"b", "b", ":", "0", "2">>]

OciConfig(id, key) ==
  [user_id |-> id.user_id, tenancy_id |-> id.tenancy_id, region |-> <<"r", "1">>,
   fingerprint |-> id.fingerprint, private_key |-> key, compartment_id |-> NoneText]

Slots == 1..NumSigners
Threads == 1..NumThreads

NoSigner ==
  [pc |-> "unborn", owner |-> "none", config |-> OciConfig(IdentityX, <<>>),
   user_id |-> <<>>, tenancy_id |-> <<>>, fingerprint |-> <<>>,
   private_key |-> NoKey, has_temp |-> FALSE, temp_path |-> <<>>, temp_ino |-> 0,
   err |-> "None"]

NoResult == [kind |-> "None", date |-> <<>>, authorization |-> <<>>, err |-> "None"]

NoCall ==
  [pc |-> "idle", signer |-> 0, entry |-> "none",
   method |-> <<>>, path |-> <<>>, host |-> <<>>,
   has_body |-> FALSE, body |-> <<>>,
   date_given |-> FALSE, date_in |-> <<>>,
   has_content_type |-> FALSE, content_type |-> <<>>,
   clock |-> 0, date |-> <<>>, signing_string |-> <<>>,
   rsa_input |-> <<>>, tries |-> 0, signature |-> <<>>,
   result |-> NoResult]

\* ------------------------------------------------------------------------
\* KeyLoader (auth/key_loader.rs)
\* ------------------------------------------------------------------------

\* The white space str::trim removes, among the characters of Text.
Whitespace == {" ", LF}

RECURSIVE TrimStart(_)
TrimStart(s) ==
  IF s # <<>> /\ Head(s) \in Whitespace THEN TrimStart(Tail(s)) ELSE s

RECURSIVE TrimEnd(_)
TrimEnd(s) ==
  IF s # <<>> /\ s[Len(s)] \in Whitespace THEN TrimEnd(SubSeq(s, 1, Len(s) - 1)) ELSE s

\* str::trim
Trim(s) == TrimEnd(TrimStart(s))

\* str::starts_with, for a marker
StartsWith(s, atom) == s # <<>> /\ s[1] = atom

\* A byte sequence that is not UTF-8: fs::read_to_string fails on a file
\* that holds one.
BadUtf8 == "0xFF"

\* The file of a path given as text; a text that names no file has none.
FileAt(fsys, path) == IF path \in DOMAIN fsys THEN fsys[path] ELSE NoFile

\* The result of a load call. touched: the paths the call looked at on the
\* filesystem. why: the message of the error.
LoadOk(text, touched) ==
  [kind |-> "Ok", text |-> text, err |-> "None", why |-> "none", touched |-> touched]

LoadErr(e, why, touched) ==
  [kind |-> "Err", text |-> <<>>, err |-> e, why |-> why, touched |-> touched]

NoLoad ==
  [pc |-> "idle", input |-> <<>>,
   result |-> [kind |-> "None", text |-> <<>>, err |-> "None", why |-> "none",
               touched |-> {}]]

\* A validation that looks for the begin-marker alone.
ValidatePemBeginOnly(content) == Contains(content, BeginMarker)

\* KeyLoader::validate_pem: both markers occur in the text.
ValidatePem(content) == Contains(content, BeginMarker) /\ Contains(content, EndMarker)

\* A file load that returns whatever text the file holds.
LoadFromFileNoValidation(fsys, path) ==
  IF ~FileAt(fsys, path).exists THEN LoadErr("KeyError", "not found", {path})
  ELSE IF Contains(FileAt(fsys, path).content, BadUtf8)
    THEN LoadErr("KeyError", "read", {path})
  ELSE LoadOk(FileAt(fsys, path).content, {path})

\* A file load that passes a read failure on as an I/O error.
LoadFromFileIoError(fsys, path) ==
  IF ~FileAt(fsys, path).exists THEN LoadErr("KeyError", "not found", {path})
  ELSE IF Contains(FileAt(fsys, path).content, BadUtf8)
    THEN LoadErr("IoError", "read", {path})
  ELSE IF ~ValidatePem(FileAt(fsys, path).content)
    THEN LoadErr("KeyError", "pem", {path})
  ELSE LoadOk(FileAt(fsys, path).content, {path})

\* KeyLoader::load_from_file
LoadFromFile(fsys, path) ==
  IF ~FileAt(fsys, path).exists THEN LoadErr("KeyError", "not found", {path})
  ELSE IF Contains(FileAt(fsys, path).content, BadUtf8)
    THEN LoadErr("KeyError", "read", {path})
  ELSE IF ~ValidatePem(FileAt(fsys, path).content)
    THEN LoadErr("KeyError", "pem", {path})
  ELSE LoadOk(FileAt(fsys, path).content, {path})

\* KeyLoader::load
Load(fsys, input) ==
  IF StartsWith(Trim(input), BeginMarker)
  THEN IF ValidatePem(Trim(input)) THEN LoadOk(Trim(input), {})
       ELSE LoadErr("KeyError", "pem", {})
  ELSE LoadFromFile(fsys, input)

\* An HTTP request as handed to the HTTP client, and an EmailClient
\* operation: what it signs and what it sends. email: the Email the caller
\* passed to send, as a one-element tuple.
NoHttp == [method |-> <<>>, target |-> <<>>, headers |-> <<>>, has_body |-> FALSE,
           body |-> <<>>]

NoReq ==
  [pc |-> "idle", op |-> "none", signer |-> 0, method |-> <<>>,
   path |-> <<>>, host |-> <<>>, url |-> <<>>,
   has_body |-> FALSE, body |-> <<>>, body_sha256 |-> <<>>, http |-> NoHttp,
   err |-> "None", email |-> <<>>]

\* An OciConfig with every field absent: the fields of
\* OciConfigBuilder::default().
NoConfig ==
  [user_id |-> NoneText, tenancy_id |-> NoneText, region |-> NoneText,
   fingerprint |-> NoneText, private_key |-> NoneText, compartment_id |-> NoneText]

\* A Result<OciConfig>.
ConfigOk(config) == [kind |-> "Ok", config |-> config, err |-> "None", why |-> "none"]
ConfigErr(e, why) == [kind |-> "Err", config |-> NoConfig, err |-> e, why |-> why]
NoConfigResult == [kind |-> "None", config |-> NoConfig, err |-> "None", why |-> "none"]

\* OciConfigBuilder::default(), no setter called yet. log: the setter calls
\* made, as <<setter, argument>>.
NoBuilder ==
  [pc |-> "open", fields |-> NoConfig, log |-> <<>>, result |-> NoConfigResult]

\* The variables from_env reads, all unset, and no call made.
EnvNames ==
  {"OCI_CONFIG", "OCI_USER_ID", "OCI_TENANCY_ID", "OCI_REGION", "OCI_FINGERPRINT",
   "OCI_PRIVATE_KEY", "OCI_COMPARTMENT_ID", "HOME"}
NoEnv ==
  [vars |-> [n \in EnvNames |-> NoneText], pc |-> "idle", result |-> NoConfigResult]

\* An absent Option<Vec<EmailAddress>> and a present one.
NoList == [some |-> FALSE, list |-> <<>>]
SomeList(list) == [some |-> TRUE, list |-> list]

\* No Recipients value yet. given: every address handed in for a list since
\* the list was last replaced, in order.
NoRecipients ==
  [kind |-> "none", to |-> NoList, cc |-> NoList, bcc |-> NoList,
   given |-> [to |-> <<>>, cc |-> <<>>, bcc |-> <<>>], calls |-> 0]

\* Option<T> of the email builder: None, or Some(v) as a one-element tuple.
None == <<>>
Some(v) == <<v>>

\* EmailBuilder::default(): every field None.
NoEmail ==
  [message_id |-> None, sender |-> None, recipients |-> None, subject |-> None,
   body_html |-> None, body_text |-> None, reply_to |-> None, headers |-> None]
\* result: what build returned, an Email (Some) or an error.
NoEmailResult == [kind |-> "None", email |-> None, err |-> "None", why |-> "none"]
NoEmailBuilder == [pc |-> "open", fields |-> NoEmail, result |-> NoEmailResult]

InitFs ==
  [p \in AllPaths |->
     IF p = PathKeyA
       THEN [exists |-> TRUE, content |-> Pem(DerA), owner_only |-> TRUE, ino |-> 1]
     ELSE IF p = PathKeyJunk
       THEN [exists |-> TRUE, content |-> Pem(DerJunk), owner_only |-> TRUE, ino |-> 2]
     ELSE NoFile]

Init ==
  /\ fs = InitFs
  /\ next_ino = 3
  /\ signer = [s \in Slots |-> NoSigner]
  /\ call = [t \in Threads |-> NoCall]
  /\ load = NoLoad
  /\ req = [t \in Threads |-> NoReq]
  /\ builder = NoBuilder
  /\ env = NoEnv
  /\ recipients = NoRecipients
  /\ email_builder = NoEmailBuilder
  /\ now = 1

\* ------------------------------------------------------------------------
\* OciSigner::new and OciClient::new
\* ------------------------------------------------------------------------

\* A test that takes every key input for inline text.
IsPemContentAlways(config) == TRUE

\* A test by the loader's rule: the trimmed key input starts with the
\* begin-marker.
IsPemContentAtStart(config) == StartsWith(Trim(config.private_key), BeginMarker)

\* signer.rs: is_pem_content, the key input contains both markers.
IsPemContent(config) ==
  Contains(config.private_key, BeginMarker) /\ Contains(config.private_key, EndMarker)

Failed(config, owner, e) ==
  [NoSigner EXCEPT !.pc = "failed", !.owner = owner, !.config = config, !.err = e]

\* A drop that leaves the file where it is.
RemoveTempNever(fsys, path) == fsys

\* A drop that clears the temp directory.
RemoveTempEvery(fsys, path) ==
  [p \in DOMAIN fsys |-> IF p \in TmpPaths THEN NoFile ELSE fsys[p]]

\* Drop of a NamedTempFile: the file of that path is removed.
RemoveTemp(fsys, path) == [fsys EXCEPT ![path] = NoFile]

\* The Ok(Self { .. }) of OciSigner::new.
LiveSigner(sg, key) ==
  [sg EXCEPT !.pc = "live",
             !.user_id = sg.config.user_id,
             !.tenancy_id = sg.config.tenancy_id,
             !.fingerprint = sg.config.fingerprint,
             !.private_key = key]

\* OciClient::new: Client::builder().build() fails, no signer is built.
ClientBuildFails(s, config) ==
  /\ signer[s].pc = "unborn"
  /\ signer' = [signer EXCEPT ![s] = Failed(config, "client", "HttpError")]
  /\ UNCHANGED <<builder, env, recipients, email_builder, load, req, fs, next_ino, call, now>>

\* OciSigner::new, inline PEM text: NamedTempFile::new() fails.
NewTempFails(s, config, owner) ==
  /\ signer[s].pc = "unborn"
  /\ IsPemContent(config)
  /\ signer' = [signer EXCEPT ![s] = Failed(config, owner, "Other")]
  /\ UNCHANGED <<builder, env, recipients, email_builder, load, req, fs, next_ino, call, now>>

\* A staging step that always uses the first temp name, truncating what
\* is there.
NewTempCreateFixedName(s, config, owner) ==
  /\ signer[s].pc = "unborn"
  /\ IsPemContent(config)
  /\ fs' = [fs EXCEPT ![TmpPath(1)] = [exists |-> TRUE, content |-> <<>>,
                                        owner_only |-> TRUE, ino |-> next_ino]]
  /\ signer' = [signer EXCEPT ![s] =
                  [NoSigner EXCEPT !.pc = "temp_created", !.owner = owner,
                                   !.config = config, !.has_temp = TRUE,
                                   !.temp_path = TmpPath(1), !.temp_ino = next_ino]]
  /\ next_ino' = next_ino + 1
  /\ UNCHANGED <<builder, env, recipients, email_builder, load, req, call, now>>

\* OciSigner::new, inline PEM text: NamedTempFile::new() creates an empty
\* owner-only file under a name no existing file has.
NewTempCreate(s, config, owner) ==
  /\ signer[s].pc = "unborn"
  /\ IsPemContent(config)
  /\ \E p \in TmpPaths :
       /\ ~fs[p].exists
       /\ fs' = [fs EXCEPT ![p] = [exists |-> TRUE, content |-> <<>>,
                                   owner_only |-> TRUE, ino |-> next_ino]]
       /\ signer' = [signer EXCEPT ![s] =
                       [NoSigner EXCEPT !.pc = "temp_created", !.owner = owner,
                                        !.config = config, !.has_temp = TRUE,
                                        !.temp_path = p, !.temp_ino = next_ino]]
  /\ next_ino' = next_ino + 1
  /\ UNCHANGED <<builder, env, recipients, email_builder, load, req, call, now>>

\* A write that recreates the file with default permissions.
NewWriteWorldReadable(s) ==
  /\ signer[s].pc = "temp_created"
  /\ fs' = [fs EXCEPT ![signer[s].temp_path].content = signer[s].config.private_key,
                      ![signer[s].temp_path].owner_only = FALSE]
  /\ signer' = [signer EXCEPT ![s].pc = "temp_written"]
  /\ UNCHANGED <<builder, env, recipients, email_builder, load, req, next_ino, call, now>>

\* fs::write(temp_file.path(), ..) succeeds.
NewWrite(s) ==
  /\ signer[s].pc = "temp_created"
  /\ fs' = [fs EXCEPT ![signer[s].temp_path].content = signer[s].config.private_key]
  /\ signer' = [signer EXCEPT ![s].pc = "temp_written"]
  /\ UNCHANGED <<builder, env, recipients, email_builder, load, req, next_ino, call, now>>

\* fs::write fails: the early return drops temp_file.
NewWriteFails(s) ==
  /\ signer[s].pc = "temp_created"
  /\ fs' = RemoveTemp(fs, signer[s].temp_path)
  /\ signer' = [signer EXCEPT ![s] = Failed(signer[s].config, signer[s].owner, "Other")]
  /\ UNCHANGED <<builder, env, recipients, email_builder, load, req, next_ino, call, now>>

\* A parse step whose failure leaves the staged file behind.
NewParseLeavesTemp(s) ==
  /\ signer[s].pc = "temp_written"
  /\ LET r == ReadPkcs8PemFile(fs, signer[s].temp_path)
     IN signer' = [signer EXCEPT ![s] =
                     IF r.ok THEN LiveSigner(signer[s], r.key)
                     ELSE Failed(signer[s].config, signer[s].owner, "ConfigError")]
  /\ UNCHANGED <<builder, env, recipients, email_builder, load, req, fs, next_ino, call, now>>

\* read_pkcs8_pem_file(temp_file.path()) and the return of new.
NewParse(s) ==
  /\ signer[s].pc = "temp_written"
  /\ LET r == ReadPkcs8PemFile(fs, signer[s].temp_path)
     IN IF r.ok
        THEN /\ signer' = [signer EXCEPT ![s] = LiveSigner(signer[s], r.key)]
             /\ fs' = fs
        ELSE /\ signer' = [signer EXCEPT ![s] =
                             Failed(signer[s].config, signer[s].owner, "ConfigError")]
             /\ fs' = RemoveTemp(fs, signer[s].temp_path)
  /\ UNCHANGED <<builder, env, recipients, email_builder, load, req, next_ino, call, now>>

\* A file path branch that reports a parse failure as a KeyError.
NewFromPathKeyError(s, config, owner) ==
  /\ signer[s].pc = "unborn"
  /\ ~IsPemContent(config)
  /\ LET r == ReadPkcs8PemFile(fs, config.private_key)
         sg == [NoSigner EXCEPT !.owner = owner, !.config = config]
     IN signer' = [signer EXCEPT ![s] =
                     IF r.ok THEN LiveSigner(sg, r.key)
                     ELSE Failed(config, owner, "KeyError")]
  /\ UNCHANGED <<builder, env, recipients, email_builder, load, req, fs, next_ino, call, now>>

\* OciSigner::new, file path: the key is parsed from the path.
NewFromPath(s, config, owner) ==
  /\ signer[s].pc = "unborn"
  /\ ~IsPemContent(config)
  /\ LET r == ReadPkcs8PemFile(fs, config.private_key)
         sg == [NoSigner EXCEPT !.owner = owner, !.config = config]
     IN signer' = [signer EXCEPT ![s] =
                     IF r.ok THEN LiveSigner(sg, r.key)
                     ELSE Failed(config, owner, "ConfigError")]
  /\ UNCHANGED <<builder, env, recipients, email_builder, load, req, fs, next_ino, call, now>>

\* A signer whose borrows are not tracked.
BorrowedNever(s) == FALSE

\* A sign call borrows the signer: it cannot be dropped under the call.
Borrowed(s) == \E t \in Threads : call[t].signer = s /\ call[t].pc \in {"entered", "signed"}

\* The drop of an OciSigner (or of the OciClient that owns it): its fields
\* are dropped, _temp_key_file among them.
DropSigner(s) ==
  /\ signer[s].pc = "live"
  /\ ~Borrowed(s)
  /\ signer' = [signer EXCEPT ![s].pc = "dropped"]
  /\ fs' = IF signer[s].has_temp THEN RemoveTemp(fs, signer[s].temp_path) ELSE fs
  /\ UNCHANGED <<builder, env, recipients, email_builder, load, req, next_ino, call, now>>

\* ------------------------------------------------------------------------
\* The sign calls
\* ------------------------------------------------------------------------

\* The header names of the signing scheme.
NameDate == <<"d", "a", "t", "e">>
NameRequestTarget ==
  <<"(", "r", "e", "q", "u", "e", "s", "t", "-", "t", "a", "r", "g", "e", "t", ")">>
NameHost == <<"h", "o", "s", "t">>
NameContentLength ==
  <<"c", "o", "n", "t", "e", "n", "t", "-", "l", "e", "n", "g", "t", "h">>
NameContentType == <<"c", "o", "n", "t", "e", "n", "t", "-", "t", "y", "p", "e">>
NameContentSha256 ==
  <<"x", "-", "c", "o", "n", "t", "e", "n", "t", "-", "s", "h", "a", "2", "5", "6">>

LitDate ==
  <<"d", "a", "t", "e", ":", " ">>
LitRequestTarget ==
  <<LF, "(", "r", "e", "q", "u", "e", "s", "t", "-", "t", "a", "r", "g", "e", "t", ")",
    ":", " ">>
LitHost ==
  <<LF, "h", "o", "s", "t", ":", " ">>
LitContentLength ==
  <<LF, "c", "o", "n", "t", "e", "n", "t", "-", "l", "e", "n", "g", "t", "h", ":", " ">>
LitContentType ==
  <<LF, "c", "o", "n", "t", "e", "n", "t", "-", "t", "y", "p", "e", ":", " ">>
LitContentSha256 ==
  <<LF, "x", "-", "c", "o", "n", "t", "e", "n", "t", "-", "s", "h", "a", "2", "5", "6",
    ":", " ">>
ApplicationJson ==
  <<"a", "p", "p", "l", "i", "c", "a", "t", "i", "o", "n", "/", "j", "s", "o", "n">>
HeadersListBody ==
  <<"d", "a", "t", "e", " ", "(", "r", "e", "q", "u", "e", "s", "t", "-", "t", "a",
    "r", "g", "e", "t", ")", " ", "h", "o", "s", "t", " ", "c", "o", "n", "t", "e",
    "n", "t", "-", "l", "e", "n", "g", "t", "h", " ", "c", "o", "n", "t", "e", "n",
    "t", "-", "t", "y", "p", "e", " ", "x", "-", "c", "o", "n", "t", "e", "n", "t",
    "-", "s", "h", "a", "2", "5", "6">>
HeadersListNoBody ==
  <<"d", "a", "t", "e", " ", "(", "r", "e", "q", "u", "e", "s", "t", "-", "t", "a",
    "r", "g", "e", "t", ")", " ", "h", "o", "s", "t">>
LitSignatureVersion ==
  <<"S", "i", "g", "n", "a", "t", "u", "r", "e", " ", "v", "e", "r", "s", "i", "o",
    "n", "=", "\"", "1", "\"", ",", "h", "e", "a", "d", "e", "r", "s", "=", "\"">>
LitKeyId ==
  <<"\"", ",", "k", "e", "y", "I", "d", "=", "\"">>
LitAlgorithm ==
  <<"\"", ",", "a", "l", "g", "o", "r", "i", "t", "h", "m", "=", "\"", "r", "s", "a",
    "-", "s", "h", "a", "2", "5", "6", "\"", ",", "s", "i", "g", "n", "a", "t", "u",
    "r", "e", "=", "\"">>
LitClose ==
  <<"\"">>

\* body_sha256: base64 of the SHA-256 of the body bytes.
BodySha256(body) == Base64Encode(Sha256(AsBytes(body)))

\* A content length counted in characters.
ContentLengthInChars(body) == UsizeToString(Len(body))

\* content_length: body_content.len().to_string(), a length in bytes.
ContentLength(body) == UsizeToString(Len(AsBytes(body)))

\* content_type.unwrap_or("application/json")
ContentTypeValue(has_content_type, content_type) ==
  IF has_content_type THEN content_type ELSE ApplicationJson

\* A signing string whose method is left as the caller wrote it.
SigningStringMethodAsGiven(c) ==
  LitDate \o c.date \o LitRequestTarget \o c.method \o <<" ">>
  \o c.path \o LitHost \o c.host

\* signing_string: the two format! calls.
SigningString(c) ==
  IF c.has_body
  THEN LitDate \o c.date \o LitRequestTarget \o ToLowercase(c.method) \o <<" ">>
       \o c.path \o LitHost \o c.host
       \o LitContentLength \o ContentLength(c.body)
       \o LitContentType \o ContentTypeValue(c.has_content_type, c.content_type)
       \o LitContentSha256 \o BodySha256(c.body)
  ELSE LitDate \o c.date \o LitRequestTarget \o ToLowercase(c.method) \o <<" ">>
       \o c.path \o LitHost \o c.host

\* A headers_list that names host before (request-target).
HeadersListHostFirst(has_body) ==
  IF has_body
  THEN NameDate \o <<" ">> \o NameHost \o <<" ">> \o NameRequestTarget
       \o <<" ">> \o NameContentLength \o <<" ">> \o NameContentType
       \o <<" ">> \o NameContentSha256
  ELSE NameDate \o <<" ">> \o NameHost \o <<" ">> \o NameRequestTarget

\* A headers_list that never names the content headers.
HeadersListNever(has_body) == HeadersListNoBody

\* headers_list
HeadersList(has_body) == IF has_body THEN HeadersListBody ELSE HeadersListNoBody

\* A key id that puts the user first.
KeyIdUserFirst(sg) == sg.user_id \o <<"/">> \o sg.tenancy_id \o <<"/">> \o sg.fingerprint

\* key_id: format!("{}/{}/{}", tenancy_id, user_id, fingerprint)
KeyId(sg) == sg.tenancy_id \o <<"/">> \o sg.user_id \o <<"/">> \o sg.fingerprint

\* authorization
Authorization(headers_list, key_id, encoded_signature) ==
  LitSignatureVersion \o headers_list \o LitKeyId \o key_id
  \o LitAlgorithm \o encoded_signature \o LitClose

\* The date of a call: sign_request and sign_request_with_content_type go
\* through sign_request_full, which formats the current time; the third
\* entry point takes the caller's date.
ResolveDate(entry, date_in, clock) ==
  IF entry = "sign_request_with_date_and_content_type"
  THEN date_in ELSE FmtHttpDate(ClockValues[clock])

Entries ==
  {"sign_request", "sign_request_with_content_type",
   "sign_request_with_date_and_content_type"}

\* The arguments an entry point takes, out of a full argument record: what
\* it has no parameter for is absent.
ArgsOf(entry, a) ==
  [a EXCEPT
     !.date_given = (entry = "sign_request_with_date_and_content_type"),
     !.date_in = IF entry = "sign_request_with_date_and_content_type"
                 THEN a.date_in ELSE <<>>,
     !.has_content_type =
        CASE entry = "sign_request" -> FALSE
          [] entry = "sign_request_with_content_type" -> TRUE
          [] OTHER -> a.has_content_type,
     !.content_type =
        CASE entry = "sign_request" -> <<>>
          [] entry = "sign_request_with_content_type" -> a.content_type
          [] OTHER -> IF a.has_content_type THEN a.content_type ELSE <<>>,
     !.body = IF a.has_body THEN a.body ELSE <<>>]

\* A thread enters a sign call on signer s: the date is resolved and the
\* signing string built (the part of the call that reads only its arguments
\* and the clock).
SignEnter(t, s, entry, a) ==
  /\ call[t].pc = "idle"
  /\ signer[s].pc = "live"
  /\ LET c0 == [NoCall EXCEPT
                  !.pc = "entered", !.signer = s, !.entry = entry,
                  !.method = a.method, !.path = a.path, !.host = a.host,
                  !.has_body = a.has_body, !.body = a.body,
                  !.date_given = a.date_given, !.date_in = a.date_in,
                  !.has_content_type = a.has_content_type,
                  !.content_type = a.content_type,
                  !.clock = IF a.date_given THEN 0 ELSE now,
                  !.date = ResolveDate(entry, a.date_in, now)]
     IN call' = [call EXCEPT ![t] = [c0 EXCEPT !.signing_string = SigningString(c0)]]
  /\ UNCHANGED <<builder, env, recipients, email_builder, load, req, fs, next_ino, signer, now>>

\* A failure reported as another kind of error.
SignFailureOther(c) == [NoResult EXCEPT !.kind = "Err", !.err = "Other"]

\* map_err(|e| OciError::AuthError(..))?: the call returns the error alone.
SignFailure(c) == [NoResult EXCEPT !.kind = "Err", !.err = "AuthError"]

\* A date header formatted anew when the call returns.
ReturnedDateFresh(c) == FmtHttpDate(ClockValues[now])

\* date.to_string(): the date returned is the date the call resolved.
ReturnedDate(c) == c.date

\* A sign step that reads the signing string out of a buffer the threads
\* share.
SignRsaSharedBuffer(t) ==
  /\ call[t].pc = "entered"
  /\ LET c == call[t]
         msg == AsBytes(call[1].signing_string)
         r == RsaTrySign(signer[c.signer].private_key, msg)
     IN call' = [call EXCEPT ![t] =
          IF r.ok
          THEN [c EXCEPT !.pc = "signed", !.rsa_input = msg, !.tries = c.tries + 1,
                         !.signature = r.bytes]
          ELSE [c EXCEPT !.pc = "returned", !.rsa_input = msg, !.tries = c.tries + 1,
                         !.result = SignFailure(c)]]
  /\ UNCHANGED <<builder, env, recipients, email_builder, load, req, fs, next_ino, signer, now>>

\* try_sign on the bytes of the signing string, with the signer's key; an
\* error of the primitive is the call's error.
SignRsa(t) ==
  /\ call[t].pc = "entered"
  /\ LET c == call[t]
         msg == AsBytes(c.signing_string)
         r == RsaTrySign(signer[c.signer].private_key, msg)
     IN call' = [call EXCEPT ![t] =
          IF r.ok
          THEN [c EXCEPT !.pc = "signed", !.rsa_input = msg, !.tries = c.tries + 1,
                         !.signature = r.bytes]
          ELSE [c EXCEPT !.pc = "returned", !.rsa_input = msg, !.tries = c.tries + 1,
                         !.result = SignFailure(c)]]
  /\ UNCHANGED <<builder, env, recipients, email_builder, load, req, fs, next_ino, signer, now>>

\* The Authorization value is assembled from the signer's identity and the
\* call returns Ok((date, authorization)).
SignReturn(t) ==
  /\ call[t].pc = "signed"
  /\ LET c == call[t]
         auth == Authorization(HeadersList(c.has_body), KeyId(signer[c.signer]),
                               Base64Encode(c.signature))
     IN call' = [call EXCEPT ![t] =
          [c EXCEPT !.pc = "returned",
                    !.result = [kind |-> "Ok", date |-> ReturnedDate(c),
                                authorization |-> auth, err |-> "None"]]]
  /\ UNCHANGED <<builder, env, recipients, email_builder, load, req, fs, next_ino, signer, now>>

\* The caller is done with the result of its call.
SignConsume(t) ==
  /\ call[t].pc = "returned"
  /\ call' = [call EXCEPT ![t] = NoCall]
  /\ UNCHANGED <<builder, env, recipients, email_builder, load, req, fs, next_ino, signer, now>>

\* Time passes.
Tick ==
  /\ now < Len(ClockValues)
  /\ now' = now + 1
  /\ UNCHANGED <<builder, env, recipients, email_builder, load, req, fs, next_ino, signer, call>>

\* ------------------------------------------------------------------------
\* Inputs
\* ------------------------------------------------------------------------

DateExample ==
  <<"T", "h", "u", ",", " ", "0", "5", " ", "J", "a", "n", " ", "2", "0", "2", "3",
    " ", "0", "0", ":", "0", "0", ":", "0", "0", " ", "G", "M", "T">>
DateOther == <<"M", "o", "n">>
\* A date, a host and a content type that hold a line feed.
DateTwoLines == <<"D", LF, "x", "-", "i", ":", " ", "1">>
HostTwoLines == <<"h", LF, "x", "-", "j", ":", " ", "2">>
ContentTypeTwoLines == <<"t", LF, "h", "o", "s", "t", ":", " ", "e">>

MethodGet == <<"G", "E", "T">>
MethodPost == <<"p", "O", "s", "t">>
PathFoo == <<"/", "f", "o", "o">>
PathQuery == <<"/", "a", "?", "q", "=", "1", " ", "2">>
HostExample == <<"e", "x", "a", "m", "p", "l", "e", ".", "c", "o", "m">>
TextPlain == <<"t", "e", "x", "t", "/", "p", "l", "a", "i", "n">>

Args(method, path, host, has_body, body, date_in, has_content_type, content_type) ==
  [method |-> method, path |-> path, host |-> host, has_body |-> has_body,
   body |-> body, date_given |-> TRUE, date_in |-> date_in,
   has_content_type |-> has_content_type, content_type |-> content_type]

\* The calls of the sequential specification.
RichArgs ==
  {ArgsOf(e, Args(m, p, h, b[1], b[2], d, ct[1], ct[2])) :
     e \in Entries,
     m \in {MethodGet, MethodPost},
     p \in {PathFoo, PathQuery},
     h \in {HostExample, HostTwoLines},
     b \in {<<FALSE, <<>>>>, <<TRUE, <<>>>>, <<TRUE, <<"a", "b">>>>,
            <<TRUE, <<"{", EAcute, "}">>>>},
     d \in {DateExample, DateOther, DateTwoLines},
     ct \in {<<FALSE, <<>>>>, <<TRUE, TextPlain>>, <<TRUE, ContentTypeTwoLines>>}}

\* The calls of the concurrent specifications.
FewArgs ==
  {ArgsOf(e, Args(m, PathFoo, HostExample, b[1], b[2], DateExample, FALSE, <<>>)) :
     e \in {"sign_request", "sign_request_with_date_and_content_type"},
     m \in {MethodGet},
     b \in {<<FALSE, <<>>>>, <<TRUE, <<"a", "b">>>>}}

EntryOf(a) ==
  IF a.date_given THEN "sign_request_with_date_and_content_type"
  ELSE IF a.has_content_type THEN "sign_request_with_content_type"
  ELSE "sign_request"

\* ------------------------------------------------------------------------
\* Specifications
\* ------------------------------------------------------------------------

CfgInlineA == OciConfig(IdentityX, Pem(DerA))
CfgInlineB == OciConfig(IdentityX, Pem(DerB))
CfgInlineShort == OciConfig(IdentityX, Pem(DerShort))
CfgInlineJunk == OciConfig(IdentityY, Pem(DerJunk))
CfgPathA == OciConfig(IdentityX, PathKeyA)
CfgPathAY == OciConfig(IdentityY, PathKeyA)
CfgPathJunk == OciConfig(IdentityY, PathKeyJunk)
CfgPathMissing == OciConfig(IdentityX, PathMissing)

\* Who builds a signer: the caller of OciSigner::new, or OciClient::new.
Owners == {"signer", "client"}

\* The life of signers: built from every kind of key input, with every
\* failure of construction, used by one thread, dropped.
LifeConfigs == {CfgInlineA, CfgInlineShort, CfgInlineJunk, CfgPathA, CfgPathJunk,
                CfgPathMissing}

Construct(s, configs) ==
  \/ \E config \in configs : ClientBuildFails(s, config)
  \/ \E config \in configs, owner \in Owners : NewTempFails(s, config, owner)
  \/ \E config \in configs, owner \in Owners : NewTempCreate(s, config, owner)
  \/ \E config \in configs, owner \in Owners : NewFromPath(s, config, owner)
  \/ NewWrite(s)
  \/ NewWriteFails(s)
  \/ NewParse(s)

Sign(t, slots, args) ==
  \/ \E s \in slots, a \in args : SignEnter(t, s, EntryOf(a), a)
  \/ SignRsa(t)
  \/ SignReturn(t)
  \/ SignConsume(t)

Next ==
  \/ \E s \in Slots : Construct(s, LifeConfigs)
  \/ \E s \in Slots : DropSigner(s)
  \/ Sign(1, Slots, FewArgs)

Spec == Init /\ [][Next]_vars

\* One signer, one caller, every kind of call.
SignConfigs == {CfgInlineA, CfgInlineShort, CfgPathAY}

NextSign ==
  \/ Construct(1, SignConfigs)
  \/ Sign(1, {1}, RichArgs)
  \/ Tick

SpecSign == Init /\ [][NextSign]_vars

\* Two callers on signers that are alive: the first built from inline PEM
\* text, the second from a key file, from inline text with another key, or
\* for another identity.
TempFile(config, ino) ==
  [exists |-> TRUE, content |-> config.private_key, owner_only |-> TRUE, ino |-> ino]

BuiltInline(config, owner, i, ino, key) ==
  LiveSigner([NoSigner EXCEPT !.owner = owner, !.config = config, !.has_temp = TRUE,
                              !.temp_path = TmpPath(i), !.temp_ino = ino], key)

BuiltFromPath(config, owner, key) ==
  LiveSigner([NoSigner EXCEPT !.owner = owner, !.config = config], key)

InitConc ==
  /\ \E second \in {"path", "inline", "other"} :
       /\ signer = [s \in Slots |->
            IF s = 1 THEN BuiltInline(CfgInlineA, "client", 1, 3, KeyA)
            ELSE IF s = 2 THEN
              CASE second = "path" -> BuiltFromPath(CfgPathA, "signer", KeyA)
                [] second = "inline" -> BuiltInline(CfgInlineB, "signer", 2, 4, KeyB)
                [] OTHER -> BuiltFromPath(CfgPathAY, "client", KeyA)
            ELSE NoSigner]
       /\ fs = [InitFs EXCEPT
                  ![TmpPath(1)] = TempFile(CfgInlineA, 3),
                  ![TmpPath(2)] = IF second = "inline"
                                  THEN TempFile(CfgInlineB, 4) ELSE NoFile]
       /\ next_ino = IF second = "inline" THEN 5 ELSE 4
  /\ call = [t \in Threads |-> NoCall]
  /\ load = NoLoad
  /\ req = [t \in Threads |-> NoReq]
  /\ builder = NoBuilder
  /\ env = NoEnv
  /\ recipients = NoRecipients
  /\ email_builder = NoEmailBuilder
  /\ now = 1

ConcConfigs == {CfgInlineA, CfgInlineB, CfgPathA, CfgPathAY}

NextConc ==
  \/ \E t \in Threads : Sign(t, Slots, FewArgs)
  \/ \E s \in Slots : DropSigner(s)
  \/ Tick

SpecConc == InitConc /\ [][NextConc]_vars

\* The states InitConc starts from are states signers reach from Init.
NextBuild ==
  \/ \E s \in Slots : Construct(s, ConcConfigs)

SpecBuild == Init /\ [][NextBuild]_vars

\* ------------------------------------------------------------------------
\* Reading a signing string and an Authorization value back
\* ------------------------------------------------------------------------

Positions(s, sep) == {i \in 1..Len(s) : s[i] = sep}

\* The pieces of s between the occurrences of sep (one more than there are
\* occurrences; a piece may be empty).
Split(s, sep) ==
  LET P == Positions(s, sep)
      n == Cardinality(P)
      Nth(j) == CHOOSE q \in P : Cardinality({r \in P : r < q}) = j - 1
      First(j) == IF j = 1 THEN 1 ELSE Nth(j - 1) + 1
      Last(j) == IF j = n + 1 THEN Len(s) ELSE Nth(j) - 1
  IN [j \in 1..(n + 1) |-> SubSeq(s, First(j), Last(j))]

\* What stands before the first occurrence of sep (all of s when there is none).
Before(s, sep) ==
  IF Positions(s, sep) = {} THEN s
  ELSE SubSeq(s, 1, (CHOOSE q \in Positions(s, sep) :
                       \A r \in Positions(s, sep) : q <= r) - 1)

\* What stands after the first occurrence of sep.
After(s, sep) ==
  IF Positions(s, sep) = {} THEN <<>>
  ELSE SubSeq(s, (CHOOSE q \in Positions(s, sep) :
                    \A r \in Positions(s, sep) : q <= r) + 1, Len(s))

\* The header names that label the lines of a signing string, first line first.
LineLabels(signing_string) ==
  LET lines == Split(signing_string, LF)
  IN [i \in 1..Len(lines) |-> Before(lines[i], ":")]

\* The attributes of an Authorization value, after the scheme: name="value",
\* separated by commas.
AuthScheme(authorization) == Before(authorization, " ")
AuthAttrs(authorization) == Split(After(authorization, " "), ",")
AttrName(attr) == Before(attr, "=")
AttrValue(attr) ==
  LET v == After(attr, "=") IN
  IF Len(v) >= 2 /\ v[1] = "\"" /\ v[Len(v)] = "\"" THEN SubSeq(v, 2, Len(v) - 1) ELSE v
Quoted(attr) ==
  LET v == After(attr, "=") IN Len(v) >= 2 /\ v[1] = "\"" /\ v[Len(v)] = "\""

\* The value of the headers attribute.
HeadersAttr(authorization) ==
  LET attrs == AuthAttrs(authorization)
  IN AttrValue(attrs[CHOOSE i \in 1..Len(attrs) :
                       AttrName(attrs[i]) = <<"h", "e", "a", "d", "e", "r", "s">>])

\* A sign call that returned Ok.
Succeeded(c) == c.pc = "returned" /\ c.result.kind = "Ok"

HasLineFeed(s) == Contains(s, LF)

\* The arguments of a call that the signing string holds as text.
LineFeedFree(c) ==
  /\ ~HasLineFeed(c.date)
  /\ ~HasLineFeed(c.method)
  /\ ~HasLineFeed(c.path)
  /\ ~HasLineFeed(c.host)
  /\ c.has_body => ~HasLineFeed(ContentTypeValue(c.has_content_type, c.content_type))

\* ------------------------------------------------------------------------
\* Claims
\* ------------------------------------------------------------------------

\* C1, as stated: for every sign call that succeeds, whatever its arguments,
\* the header names labelling the lines of the signing string, first line to
\* last, are exactly the space-separated names of the headers attribute of
\* the Authorization value returned, in the same order.
C1_LabelsAreHeadersList ==
  \A t \in Threads :
    Succeeded(call[t]) =>
      LineLabels(call[t].signing_string)
        = Split(HeadersAttr(call[t].result.authorization), " ")

\* C1, amended: the same, for every sign call that succeeds and whose date,
\* method, path, host and (with a body) content type hold no line feed.
C1_LabelsAreHeadersListNoLineFeed ==
  \A t \in Threads :
    (Succeeded(call[t]) /\ LineFeedFree(call[t])) =>
      LineLabels(call[t].signing_string)
        = Split(HeadersAttr(call[t].result.authorization), " ")

\* C1 witness: a call with a body and a content type of its own succeeded,
\* no argument holding a line feed.
C1_Witness ==
  \E t \in Threads :
    /\ Succeeded(call[t]) /\ LineFeedFree(call[t])
    /\ call[t].has_body /\ call[t].has_content_type
    /\ Len(LineLabels(call[t].signing_string)) = 6

\* C2: the headers attribute of the Authorization value returned is exactly
\* "date (request-target) host" when the body is absent and exactly
\* "date (request-target) host content-length content-type x-content-sha256"
\* when a body is present, the empty body included.
C2_HeadersAttrByBody ==
  \A t \in Threads :
    Succeeded(call[t]) =>
      HeadersAttr(call[t].result.authorization) =
        IF call[t].has_body
        THEN NameDate \o <<" ">> \o NameRequestTarget \o <<" ">> \o NameHost
             \o <<" ">> \o NameContentLength \o <<" ">> \o NameContentType
             \o <<" ">> \o NameContentSha256
        ELSE NameDate \o <<" ">> \o NameRequestTarget \o <<" ">> \o NameHost

\* C2 witness: a call whose body is the empty string succeeded.
C2_Witness ==
  \E t \in Threads :
    Succeeded(call[t]) /\ call[t].has_body /\ call[t].body = <<>>

\* The call has handed its signing string to the RSA primitive.
HandedToRsa(c) == c.pc \in {"signed", "returned"}

ColonSpace == <<":", " ">>

\* The three lines every signing string starts with.
ExpectedHead(c) ==
  NameDate \o ColonSpace \o c.date \o <<LF>>
  \o NameRequestTarget \o ColonSpace \o ToLowercase(c.method) \o <<" ">> \o c.path
  \o <<LF>> \o NameHost \o ColonSpace \o c.host

CountOf(s, ch) == Cardinality(Positions(s, ch))

\* C3: when the body is absent, the bytes handed to the RSA primitive are
\* exactly "date: <date>\n(request-target): <method lowercased> <path>\nhost:
\* <host>": the three lines in that order, the method in lower case, the
\* date, path and host as passed, two line feeds added and nothing after
\* the host.
C3_NoBodySigningString ==
  \A t \in Threads :
    (HandedToRsa(call[t]) /\ ~call[t].has_body) =>
      /\ call[t].rsa_input = AsBytes(ExpectedHead(call[t]))
      /\ call[t].method = MethodPost =>
           SubSeq(call[t].signing_string, Len(call[t].date) + 26,
                  Len(call[t].date) + 29) = <<"p", "o", "s", "t">>
      /\ CountOf(call[t].signing_string, LF) =
           2 + CountOf(call[t].date, LF) + CountOf(call[t].method, LF)
             + CountOf(call[t].path, LF) + CountOf(call[t].host, LF)
      /\ SubSeq(call[t].signing_string,
                Len(call[t].signing_string) - Len(call[t].host) + 1,
                Len(call[t].signing_string)) = call[t].host

\* C3 witness: a call without a body, its method written with a capital,
\* has handed its signing string to the RSA primitive.
C3_Witness ==
  \E t \in Threads :
    /\ HandedToRsa(call[t]) /\ ~call[t].has_body
    /\ call[t].method = MethodPost /\ call[t].path = PathQuery

\* C4: when a body is present, the signed string is the three lines of a
\* call without a body followed, in this order, by "content-length: <byte
\* length of the body>", "content-type: <the content type passed, or
\* application/json>" and "x-content-sha256: <base64 of the SHA-256 of the
\* body bytes>", the length and the hash being those of this call's body.
C4_BodySigningString ==
  \A t \in Threads :
    (HandedToRsa(call[t]) /\ call[t].has_body) =>
      /\ call[t].rsa_input =
           AsBytes(ExpectedHead(call[t])
                   \o <<LF>> \o NameContentLength \o ColonSpace
                   \o UsizeToString(Len(AsBytes(call[t].body)))
                   \o <<LF>> \o NameContentType \o ColonSpace
                   \o (IF call[t].has_content_type THEN call[t].content_type
                       ELSE ApplicationJson)
                   \o <<LF>> \o NameContentSha256 \o ColonSpace
                   \o Base64Encode(Sha256(AsBytes(call[t].body))))
      /\ call[t].body = <<"{", EAcute, "}">> =>
           SubSeq(call[t].signing_string, Len(ExpectedHead(call[t])) + 1,
                  Len(ExpectedHead(call[t])) + 18)
             = <<LF>> \o NameContentLength \o ColonSpace \o <<"4">>

\* C4 witness: a call whose body holds a two-byte character and which names
\* no content type has handed its signing string to the RSA primitive.
C4_Witness ==
  \E t \in Threads :
    /\ HandedToRsa(call[t]) /\ call[t].has_body
    /\ call[t].body = <<"{", EAcute, "}">> /\ ~call[t].has_content_type

\* C5: every sign call that succeeds returns Signature version="1",
\* headers="<list>",keyId="<tenancy>/<user>/<fingerprint>",
\* algorithm="rsa-sha256",signature="<base64 signature>", the five
\* attributes in that order, the key id built from the identity the signer
\* was constructed with, the tenancy first.
C5_AuthorizationForm ==
  \A t \in Threads :
    Succeeded(call[t]) =>
      LET auth == call[t].result.authorization
          attrs == AuthAttrs(auth)
          config == signer[call[t].signer].config
      IN /\ AuthScheme(auth) = <<"S", "i", "g", "n", "a", "t", "u", "r", "e">>
         /\ Len(attrs) = 5
         /\ \A i \in 1..5 : Quoted(attrs[i])
         /\ AttrName(attrs[1]) = <<"v", "e", "r", "s", "i", "o", "n">>
         /\ AttrValue(attrs[1]) = <<"1">>
         /\ AttrName(attrs[2]) = <<"h", "e", "a", "d", "e", "r", "s">>
         /\ AttrValue(attrs[2]) \in {HeadersListBody, HeadersListNoBody}
         /\ AttrName(attrs[3]) = <<"k", "e", "y", "I", "d">>
         /\ AttrValue(attrs[3]) =
              config.tenancy_id \o <<"/">> \o config.user_id \o <<"/">>
              \o config.fingerprint
         /\ AttrName(attrs[4]) = <<"a", "l", "g", "o", "r", "i", "t", "h", "m">>
         /\ AttrValue(attrs[4]) =
              <<"r", "s", "a", "-", "s", "h", "a", "2", "5", "6">>
         /\ AttrName(attrs[5]) = <<"s", "i", "g", "n", "a", "t", "u", "r", "e">>
         /\ AttrValue(attrs[5]) = Base64Encode(call[t].signature)
         /\ call[t].signature # <<>>

\* C5 witness: a call succeeded on a signer whose tenancy and user differ.
C5_Witness ==
  \E t \in Threads :
    /\ Succeeded(call[t])
    /\ signer[call[t].signer].config.tenancy_id # signer[call[t].signer].config.user_id

DigitChars == {"0", "1", "2", "3", "4", "5", "6", "7", "8", "9"}

\* The shape of an HTTP-date: "Www, DD Mmm YYYY HH:MM:SS GMT".
IsHttpDate(d) ==
  /\ Len(d) = 29
  /\ SubSeq(d, 4, 5) = <<",", " ">>
  /\ \A i \in {6, 7, 13, 14, 15, 16, 18, 19, 21, 22, 24, 25} : d[i] \in DigitChars
  /\ \A i \in {8, 12, 17, 26} : d[i] = " "
  /\ d[20] = ":" /\ d[23] = ":"
  /\ SubSeq(d, 27, 29) = <<"G", "M", "T">>

\* C7: a sign call resolves its date once: the date supplied, or the time
\* of the call formatted as an HTTP-date when none is supplied; a call that
\* succeeds returns that date, and it is the date in the signed string.
C7_DateResolvedOnce ==
  \A t \in Threads :
    call[t].pc # "idle" =>
      /\ call[t].date_given <=> call[t].entry = "sign_request_with_date_and_content_type"
      /\ call[t].date_given => call[t].date = call[t].date_in
      /\ ~call[t].date_given =>
           /\ call[t].clock \in 1..now
           /\ call[t].date = FmtHttpDate(ClockValues[call[t].clock])
           /\ IsHttpDate(call[t].date)
           /\ call[t].clock = 1 => call[t].date = DateExample
      /\ SubSeq(call[t].signing_string, 1, 7 + Len(call[t].date))
           = <<"d", "a", "t", "e", ":", " ">> \o call[t].date \o <<LF>>
      /\ HandedToRsa(call[t]) => call[t].rsa_input = AsBytes(call[t].signing_string)
      /\ Succeeded(call[t]) => call[t].result.date = call[t].date

\* C7 witness: a call given no date succeeded after the clock moved on
\* during the call.
C7_Witness ==
  \E t \in Threads :
    Succeeded(call[t]) /\ ~call[t].date_given /\ call[t].clock < now

\* C8: a sign call returns all or nothing: Ok with a date and an
\* Authorization value, or an AuthError and no output; nothing is returned
\* before that, and the RSA primitive is tried once per call.
C8_AllOrNothing ==
  \A t \in Threads :
    /\ call[t].pc # "returned" => call[t].result = NoResult
    /\ call[t].tries = IF HandedToRsa(call[t]) THEN 1 ELSE 0
    /\ call[t].pc = "returned" =>
         \/ /\ call[t].result.kind = "Ok"
            /\ call[t].result.err = "None"
            /\ call[t].result.date = call[t].date
            /\ call[t].result.authorization # <<>>
         \/ /\ call[t].result.kind = "Err"
            /\ call[t].result.err = "AuthError"
            /\ call[t].result.date = <<>>
            /\ call[t].result.authorization = <<>>

\* C8 witness: a sign call returned an error, the RSA primitive having
\* refused the key.
C8_Witness ==
  \E t \in Threads :
    call[t].pc = "returned" /\ call[t].result.kind = "Err" /\ call[t].tries = 1

\* What a sign call asks for: its arguments, its date resolved.
Request(c) ==
  <<c.method, c.path, c.host, c.has_body, c.body, c.date,
    c.has_content_type, c.content_type>>

\* The key and the identity a signer holds.
KeyAndIdentity(sg) == <<sg.private_key, sg.tenancy_id, sg.user_id, sg.fingerprint>>

\* C6: two sign calls with the same method, path, host, body, date and
\* content type, on signers holding the same key and identity, return the
\* same (date, authorization) pair, whatever calls ran in between and
\* whichever signer instance each ran on.
C6_Deterministic ==
  \A t1 \in Threads, t2 \in Threads :
    ( /\ call[t1].pc = "returned" /\ call[t2].pc = "returned"
      /\ Request(call[t1]) = Request(call[t2])
      /\ KeyAndIdentity(signer[call[t1].signer]) = KeyAndIdentity(signer[call[t2].signer]) )
    => call[t1].result = call[t2].result

\* C6 witness: the same request succeeded on two signer instances holding
\* the same key and identity, one built from inline text and one from a
\* path, after the clock moved on.
C6_Witness ==
  \E t1 \in Threads, t2 \in Threads :
    /\ Succeeded(call[t1]) /\ Succeeded(call[t2])
    /\ Request(call[t1]) = Request(call[t2])
    /\ call[t1].signer # call[t2].signer
    /\ KeyAndIdentity(signer[call[t1].signer]) = KeyAndIdentity(signer[call[t2].signer])
    /\ call[t1].has_body /\ call[t1].date_given
    /\ now > 1

\* What a sign call returns when it runs alone on its signer.
RunAlone(c) ==
  LET sg == signer[c.signer]
      c0 == [c EXCEPT !.date = ResolveDate(c.entry, c.date_in, c.clock)]
      r == RsaTrySign(sg.private_key, AsBytes(SigningString(c0)))
  IN IF r.ok
     THEN [kind |-> "Ok", date |-> c0.date,
           authorization |-> Authorization(HeadersList(c.has_body), KeyId(sg),
                                           Base64Encode(r.bytes)),
           err |-> "None"]
     ELSE SignFailure(c0)

\* A step of a sign call.
SignStep == \E t \in Threads : call'[t] # call[t]

\* C9: sign calls interleaved from several threads on a shared signer each
\* return what the same call returns when run alone, and no step of a sign
\* call changes a signer's identity fields, its parsed key, or the
\* existence or content of its temp file.
C9_StatelessConcurrent ==
  /\ [](\A t \in Threads : call[t].pc = "returned" => call[t].result = RunAlone(call[t]))
  /\ [][SignStep => (signer' = signer /\ fs' = fs)]_vars

\* C9 witness: one thread's call on a signer with a temp file returned
\* while another thread's different call on the same signer is under way.
C9_Witness ==
  \E t1 \in Threads, t2 \in Threads :
    /\ t1 # t2
    /\ Succeeded(call[t1])
    /\ call[t2].pc = "signed"
    /\ call[t1].signer = call[t2].signer
    /\ signer[call[t1].signer].has_temp
    /\ call[t1].signing_string # call[t2].signing_string

\* The file a signer's temp handle names is on the filesystem.
TempFileExists(sg) ==
  /\ fs[sg.temp_path].exists
  /\ fs[sg.temp_path].ino = sg.temp_ino
  /\ fs[sg.temp_path].content = sg.config.private_key

\* C10: for a signer built from inline PEM text, by the caller or inside an
\* OciClient, the temp file exists in every state from the successful
\* return of construction until the signer is dropped, and in no state
\* after the drop.
C10_TempFileLifetime ==
  \A s \in Slots :
    /\ (signer[s].pc = "live" /\ IsPemContent(signer[s].config)) =>
         signer[s].has_temp /\ TempFileExists(signer[s])
    /\ (signer[s].pc = "dropped" /\ IsPemContent(signer[s].config)) =>
         /\ signer[s].has_temp
         /\ \A p \in AllPaths : ~(fs[p].exists /\ fs[p].ino = signer[s].temp_ino)

\* C10 witness: a client's signer built from inline text has been dropped
\* while another signer built from inline text is live.
C10_Witness ==
  \E s1 \in Slots, s2 \in Slots :
    /\ signer[s1].pc = "dropped" /\ signer[s1].has_temp /\ signer[s1].owner = "client"
    /\ signer[s2].pc = "live" /\ signer[s2].has_temp

\* ------------------------------------------------------------------------
\* Construction: failures, temp file names, sharing
\* ------------------------------------------------------------------------

\* The signer holds a temp file handle (construction under way, or live).
HoldsTemp(sg) == sg.has_temp /\ sg.pc \in {"temp_created", "temp_written", "live"}

\* Every temp file on the filesystem is held by a signer.
NoOrphanTemp ==
  \A p \in TmpPaths :
    fs[p].exists =>
      \E s \in Slots :
        HoldsTemp(signer[s]) /\ signer[s].temp_path = p /\ signer[s].temp_ino = fs[p].ino

\* A construction that had created a temp file returns an error.
FailsAfterTemp(s) ==
  signer[s].pc \in {"temp_created", "temp_written"} /\ signer'[s].pc = "failed"

\* C11: when construction from inline PEM text fails after the temp file
\* was created (the write fails, or the key does not parse), no temp file
\* created by that call exists once OciSigner::new has returned the error.
C11_FailureLeavesNoTemp ==
  /\ []NoOrphanTemp
  /\ [][\A s \in Slots :
          FailsAfterTemp(s) =>
            \A p \in AllPaths : ~(fs'[p].exists /\ fs'[p].ino = signer[s].temp_ino)]_vars

\* C11 witness: a construction from inline text failed at the parse, after
\* its temp file was created and written, while another signer holds a
\* temp file.
C11_Witness ==
  \E s1 \in Slots, s2 \in Slots :
    /\ signer[s1].pc = "failed" /\ IsPemContent(signer[s1].config)
    /\ signer[s1].err = "ConfigError"
    /\ HoldsTemp(signer[s2])

\* OciSigner::new was called for the slot and has returned.
NewReturned(sg) == sg.pc \in {"live", "dropped", "failed"} /\ sg.err # "HttpError"

\* The key of the configuration does not parse as a PKCS#8 RSA private key.
Unparsable(config) ==
  IF IsPemContent(config)
  THEN ~DecodePkcs8Pem(config.private_key).ok
  ELSE ~ReadPkcs8PemFile(InitFs, config.private_key).ok

TempNamesDistinct ==
  \A s1 \in Slots :
    HoldsTemp(signer[s1]) =>
      /\ fs[signer[s1].temp_path].exists
      /\ fs[signer[s1].temp_path].ino = signer[s1].temp_ino
      /\ \A s2 \in Slots \ {s1} :
           HoldsTemp(signer[s2]) =>
             /\ signer[s2].temp_path # signer[s1].temp_path
             /\ signer[s2].temp_ino # signer[s1].temp_ino

\* A file that exists is changed by nobody but the signer that holds it:
\* that signer writes its own key text into it or removes it.
OnlyHolderTouches ==
  \A p \in TmpPaths :
    (fs[p].exists /\ fs'[p] # fs[p]) =>
      \E s \in Slots :
        /\ HoldsTemp(signer[s]) /\ signer[s].temp_path = p
        /\ signer'[s] # signer[s]
        /\ \/ ~fs'[p].exists
           \/ fs'[p] = [fs[p] EXCEPT !.content = signer[s].config.private_key]

\* C13: signers constructed from inline PEM text at the same time, or while
\* earlier ones are alive, never use the same temp file name, also when
\* built from the same config: each temp path held belongs to one signer,
\* and no construction overwrites a file another construction staged.
C13_TempNamesNeverCollide ==
  /\ []TempNamesDistinct
  /\ [][OnlyHolderTouches]_vars

\* C13 witness: two signers of the same inline config hold temp files at
\* once, one live and one whose construction is under way.
C13_Witness ==
  \E s1 \in Slots, s2 \in Slots :
    /\ signer[s1].config = CfgInlineA /\ signer[s2].config = CfgInlineA
    /\ signer[s1].pc = "live" /\ signer[s1].has_temp
    /\ signer[s2].pc = "temp_created"

\* The key of the configuration is the path of a key file.
KeyIsPath(config) == config.private_key \in KeyPaths

\* A signer whose key came as a path holds no temp file, and when live
\* holds the key parsed from the file of that path.
PathSignersHoldNoTemp ==
  \A s \in Slots :
    /\ (signer[s].pc # "unborn" /\ KeyIsPath(signer[s].config)) =>
         /\ ~signer[s].has_temp /\ signer[s].temp_path = <<>>
         /\ signer[s].pc \in {"live", "dropped", "failed"}
         /\ signer[s].pc \in {"live", "dropped"} =>
              /\ ReadPkcs8PemFile(fs, signer[s].config.private_key).ok
              /\ signer[s].private_key =
                   ReadPkcs8PemFile(fs, signer[s].config.private_key).key
    /\ signer[s].has_temp => ~KeyIsPath(signer[s].config)

\* A construction from a path is one step that leaves the filesystem as it
\* is.
PathConstructionLeavesFs ==
  \A s \in Slots :
    (signer[s].pc = "unborn" /\ signer'[s].pc # "unborn" /\ KeyIsPath(signer'[s].config))
      => (fs' = fs /\ next_ino' = next_ino)

\* C14: a signer owns a temp file only when its key came as inline text;
\* when the key is a file path it is parsed from that path and no temp file
\* is created at any point of construction, whether it succeeds or fails.
C14_PathKeyStagesNothing ==
  /\ []PathSignersHoldNoTemp
  /\ []NoOrphanTemp
  /\ [][PathConstructionLeavesFs]_vars

\* C14 witness: one construction from a path succeeded and one failed, and
\* there is no temp file.
C14_Witness ==
  \E s1 \in Slots, s2 \in Slots :
    /\ signer[s1].pc = "live" /\ signer[s1].config = CfgPathA
    /\ signer[s2].pc = "failed" /\ signer[s2].config = CfgPathMissing
    /\ signer[s2].err = "ConfigError"
    /\ \A p \in TmpPaths : ~fs[p].exists

\* Thread t holds a reference to signer s: its sign call is under way.
HoldsReference(t, s) == call[t].pc \in {"entered", "signed"} /\ call[t].signer = s

\* The key OciSigner::new parsed for a configuration.
ParsedKey(config) ==
  IF IsPemContent(config) THEN DecodePkcs8Pem(config.private_key).key
  ELSE ReadPkcs8PemFile(InitFs, config.private_key).key

\* While a reference is held the signer is alive with the key it parsed at
\* construction and, if it has one, its temp file; every holder signs with
\* that key.
SharersSeeOneSigner ==
  \A s \in Slots, t \in Threads :
    HoldsReference(t, s) =>
      /\ signer[s].pc = "live"
      /\ signer[s].private_key = ParsedKey(signer[s].config)
      /\ signer[s].has_temp => TempFileExists(signer[s])
      /\ call[t].pc = "signed" =>
           call[t].signature =
             RsaTrySign(ParsedKey(signer[s].config), call[t].rsa_input).bytes

\* Taking or releasing a reference parses nothing and stages nothing.
SharingStagesNothing ==
  (\E t \in Threads, s \in Slots : HoldsReference(t, s) # HoldsReference(t, s)')
    => (fs' = fs /\ next_ino' = next_ino /\ signer' = signer)

\* The temp file goes when the signer is dropped, no reference being held.
DroppedAfterLastReference ==
  \A s \in Slots :
    (signer[s].pc = "live" /\ signer'[s].pc = "dropped") =>
      /\ \A t \in Threads : ~HoldsReference(t, s)
      /\ signer[s].has_temp => ~fs'[signer[s].temp_path].exists

C16_TempFileOwnerOnly ==
  /\ \A p \in TmpPaths : fs[p].exists => fs[p].owner_only
  /\ \A s \in Slots :
       HoldsTemp(signer[s]) =>
         \A p \in AllPaths :
           (fs[p].exists /\ fs[p].ino = signer[s].temp_ino) => fs[p].owner_only

\* C16 witness: one temp file has just been created and is empty, and
\* another holds the key text of a live signer.
C16_Witness ==
  \E s1 \in Slots, s2 \in Slots :
    /\ signer[s1].pc = "temp_created"
    /\ fs[signer[s1].temp_path].exists /\ fs[signer[s1].temp_path].content = <<>>
    /\ signer[s2].pc = "live" /\ signer[s2].has_temp
    /\ fs[signer[s2].temp_path].content = signer[s2].config.private_key

\* ------------------------------------------------------------------------
\* KeyLoader::load: calls, inputs, specification
\* ------------------------------------------------------------------------

\* A call of KeyLoader::load on an input, against the files as they are.
LoadCall(input) ==
  /\ load.pc = "idle"
  /\ load' = [pc |-> "returned", input |-> input, result |-> Load(fs, input)]
  /\ UNCHANGED <<builder, env, recipients, email_builder, fs, next_ino, signer, call, now, req>>

\* The caller is done with the result.
LoadConsume ==
  /\ load.pc = "returned"
  /\ load' = NoLoad
  /\ UNCHANGED <<builder, env, recipients, email_builder, fs, next_ino, signer, call, now, req>>

PemNoEnd == <<BeginMarker, LabelRest, LF, DerA>>
PemNoBegin == <<DerA, LF, EndMarker, LabelRest>>
PemAfterJunk == <<"x", LF>> \o Pem(DerA)
PemInSpace == <<" ", LF>> \o Pem(DerA) \o <<LF, " ">>

\* What a caller passes to load: inline documents, whole and broken, with
\* and without white space around, and paths.
LoadInputs ==
  {Pem(DerA), Pem(DerJunk), PemInSpace, PemNoEnd, <<LF>> \o PemNoEnd \o <<LF>>,
   <<BeginMarker>>, PemNoBegin, PemAfterJunk, <<>>,
   PathKeyA, PathKeyJunk, PathMissing, <<" ">> \o PathKeyA}

\* What the key file may hold.
LoadFileTexts ==
  {Pem(DerA), Pem(DerA) \o <<LF>>, PemInSpace, PemAfterJunk, PemNoEnd, PemNoBegin,
   <<>>, <<BadUtf8>> \o Pem(DerA)}

InitLoad ==
  /\ \E text \in LoadFileTexts :
       fs = [InitFs EXCEPT ![PathKeyA].content = text]
  /\ next_ino = 3
  /\ signer = [s \in Slots |-> NoSigner]
  /\ call = [t \in Threads |-> NoCall]
  /\ now = 1
  /\ load = NoLoad
  /\ req = [t \in Threads |-> NoReq]
  /\ builder = NoBuilder
  /\ env = NoEnv
  /\ recipients = NoRecipients
  /\ email_builder = NoEmailBuilder

NextLoad ==
  \/ \E input \in LoadInputs : LoadCall(input)
  \/ LoadConsume

SpecLoad == InitLoad /\ [][NextLoad]_vars

\* The input is taken for inline content: its trimmed form starts with the
\* begin-marker.
TakenInline(input) == Trim(input) # <<>> /\ Head(Trim(input)) = BeginMarker

\* The filesystems load may run against.
LoadFilesystems == {[InitFs EXCEPT ![PathKeyA].content = text] : text \in LoadFileTexts}

\* C17: load on an input whose trimmed form starts with the begin-marker
\* takes it for inline content and does not touch the filesystem; it
\* returns the trimmed text when that text also contains an end-marker and
\* fails with KeyError otherwise, whatever else the text holds.
C17_InlineLoad ==
  (load.pc = "returned" /\ TakenInline(load.input)) =>
    /\ load.result.touched = {}
    /\ \A fsys \in LoadFilesystems : Load(fsys, load.input) = load.result
    /\ Contains(Trim(load.input), EndMarker) =>
         /\ load.result.kind = "Ok"
         /\ load.result.text = Trim(load.input)
         /\ load.input = PemInSpace => load.result.text = Pem(DerA)
    /\ ~Contains(Trim(load.input), EndMarker) =>
         /\ load.result.kind = "Err"
         /\ load.result.err = "KeyError"
         /\ load.result.text = <<>>

\* C17 witness: load has refused a document with white space around it
\* that starts with the begin-marker and has no end-marker.
C17_Witness ==
  /\ load.pc = "returned"
  /\ load.input = <<LF>> \o PemNoEnd \o <<LF>>
  /\ load.result.kind = "Err"

\* The text is accepted when given to load as inline content.
AcceptedInline(text) ==
  \A fsys \in LoadFilesystems :
    Load(fsys, text).kind = "Ok" /\ Load(fsys, text).touched = {}

\* The file a load call taken for a path names can be read as text.
FileReadable(f) == f.exists /\ ~Contains(f.content, BadUtf8)

\* What C18 says of every load call taken for a path, but for the relation
\* between the two ways a text is accepted.
PathLoadReadsThatFile ==
  /\ load.result.touched = {load.input}
  /\ ~FileReadable(FileAt(fs, load.input)) =>
       /\ load.result.kind = "Err"
       /\ load.result.err = "KeyError"
  /\ load.result.kind = "Ok" => load.result.text = FileAt(fs, load.input).content

\* C18 as stated: a load call taken for a path fails with KeyError when the
\* file is missing or unreadable, and otherwise accepts the file's text
\* exactly when the same text is accepted inline.
C18_FileAcceptedIffInline ==
  (load.pc = "returned" /\ ~TakenInline(load.input)) =>
    /\ PathLoadReadsThatFile
    /\ FileReadable(FileAt(fs, load.input)) =>
         (load.result.kind = "Ok" <=> AcceptedInline(FileAt(fs, load.input).content))

\* C18 amended: a load call taken for a path fails with KeyError when the
\* file is missing or unreadable, and otherwise accepts the file's text
\* exactly when it contains both markers; so every text accepted inline is
\* accepted from a file, and a text whose trimmed form starts with the
\* begin-marker is accepted from a file exactly when it is accepted inline.
C18_FileAcceptedIffBothMarkers ==
  (load.pc = "returned" /\ ~TakenInline(load.input)) =>
    /\ PathLoadReadsThatFile
    /\ FileReadable(FileAt(fs, load.input)) =>
         LET text == FileAt(fs, load.input).content
         IN /\ load.result.kind = "Ok" <=>
                 (Contains(text, BeginMarker) /\ Contains(text, EndMarker))
            /\ AcceptedInline(text) => load.result.kind = "Ok"
            /\ TakenInline(text) => (load.result.kind = "Ok" <=> AcceptedInline(text))

\* C18 witness: load has accepted from a file a text that holds both
\* markers after a first line of something else.
C18_Witness ==
  /\ load.pc = "returned" /\ load.input = PathKeyA
  /\ FileAt(fs, PathKeyA).content = PemAfterJunk
  /\ load.result.kind = "Ok"
  /\ ~AcceptedInline(PemAfterJunk)

\* C19: every failure of load is a KeyError (missing file, unreadable file,
\* missing begin-marker, missing end-marker) and comes with no text; a load
\* that returns text returns text that holds both markers.
C19_LoadFailsWithKeyError ==
  load.pc = "returned" =>
    /\ load.result.kind \in {"Ok", "Err"}
    /\ load.result.kind = "Err" =>
         /\ load.result.err = "KeyError"
         /\ load.result.text = <<>>
    /\ load.result.kind = "Ok" =>
         /\ load.result.err = "None"
         /\ Contains(load.result.text, BeginMarker)
         /\ Contains(load.result.text, EndMarker)
    /\ (~TakenInline(load.input) /\ ~FileReadable(FileAt(fs, load.input))) =>
         load.result.kind = "Err"
    /\ (TakenInline(load.input) /\ ~Contains(load.input, EndMarker)) =>
         load.result.kind = "Err"
    /\ (~TakenInline(load.input) /\ FileReadable(FileAt(fs, load.input))
        /\ ~( /\ Contains(FileAt(fs, load.input).content, BeginMarker)
              /\ Contains(FileAt(fs, load.input).content, EndMarker) )) =>
         load.result.kind = "Err"

\* C19 witness: load has failed on a file that cannot be read as text.
C19_Witness ==
  /\ load.pc = "returned" /\ load.input = PathKeyA
  /\ FileAt(fs, PathKeyA).exists /\ Contains(FileAt(fs, PathKeyA).content, BadUtf8)
  /\ load.result.kind = "Err" /\ load.result.why = "read"

\* ------------------------------------------------------------------------
\* EmailClient (services/email/client.rs): what is signed, what is sent
\* ------------------------------------------------------------------------

RECURSIVE FlatMapRange(_, _, _, _)
\* The texts f[s[lo]], .., f[s[hi]] joined, by halves (a shallow recursion).
FlatMapRange(f, s, lo, hi) ==
  IF lo > hi THEN <<>>
  ELSE IF lo = hi THEN (IF s[lo] \in DOMAIN f THEN f[s[lo]] ELSE <<s[lo]>>)
  ELSE FlatMapRange(f, s, lo, (lo + hi) \div 2)
       \o FlatMapRange(f, s, ((lo + hi) \div 2) + 1, hi)

HexDigits == <<"0", "1", "2", "3", "4", "5", "6", "7", "8", "9",
               "A", "B", "C", "D", "E", "F">>

\* One byte, percent-encoded.
PctByte(b) == <<"%", HexDigits[(b \div 16) + 1], HexDigits[(b % 16) + 1]>>

\* A character percent-encoded: each byte of its UTF-8 encoding.
PctChar(c) ==
  IF c = EAcute THEN PctByte(195) \o PctByte(169) ELSE PctByte(Ord(c))

\* Url::parse, the query of an https URL: what the URL standard's query
\* percent-encode set holds is encoded (space, ", #, <, >, ' and every
\* character outside ASCII).
QueryEncoding == [c \in {" ", "\"", "<", ">", "'", EAcute} |-> PctChar(c)]

\* Url::parse, the path of a URL: the path percent-encode set.
PathEncoding ==
  [c \in {" ", "\"", "<", ">", Backtick, "{", "}", EAcute} |-> PctChar(c)]

LitHttps == <<"h", "t", "t", "p", "s", ":", "/", "/">>

\* The request target of the request reqwest builds for a URL text:
\* Url::parse drops the fragment and percent-encodes path and query.
RequestTarget(url) ==
  LET rest == SubSeq(url, Len(LitHttps) + 1, Len(url))
      authority == Before(rest, "/")
      whole == SubSeq(rest, Len(authority) + 1, Len(rest))
      nofrag == Before(whole, "#")
      path == Before(nofrag, "?")
      query == After(nofrag, "?")
  IN FlatMapRange(PathEncoding, path, 1, Len(path))
     \o (IF Contains(nofrag, "?")
         THEN <<"?">> \o FlatMapRange(QueryEncoding, query, 1, Len(query))
         ELSE <<>>)

\* serde_json's string: quotes around, the quote, the backslash and the
\* line feed escaped.
JsonEscapes ==
  [c \in {"\"", "\\", LF} |->
     IF c = LF THEN <<"\\", "n">> ELSE <<"\\", c>>]

JsonString(text) == <<"\"">> \o FlatMapRange(JsonEscapes, text, 1, Len(text)) \o <<"\"">>

LitConfigurationPath ==
  <<"/", "2", "0", "1", "7", "0", "9", "0", "7", "/", "c", "o", "n", "f",
    "i", "g", "u", "r", "a", "t", "i", "o", "n", "?", "c", "o", "m", "p",
    "a", "r", "t", "m", "e", "n", "t", "I", "d", "=">>
LitSendersPath ==
  <<"/", "2", "0", "1", "7", "0", "9", "0", "7", "/", "s", "e", "n", "d",
    "e", "r", "s", "?">>
LitLifecycleState ==
  <<"l", "i", "f", "e", "c", "y", "c", "l", "e", "S", "t", "a", "t", "e",
    "=">>
LitEmailAddress ==
  <<"e", "m", "a", "i", "l", "A", "d", "d", "r", "e", "s", "s", "=">>
LitSubmitPath ==
  <<"/", "2", "0", "2", "2", "0", "9", "2", "6", "/", "a", "c", "t", "i",
    "o", "n", "s", "/", "s", "u", "b", "m", "i", "t", "E", "m", "a", "i",
    "l">>
LitCtrlEmail ==
  <<"c", "t", "r", "l", ".", "e", "m", "a", "i", "l", ".">>
LitOracleCloud ==
  <<".", "o", "c", "i", ".", "o", "r", "a", "c", "l", "e", "c", "l", "o",
    "u", "d", ".", "c", "o", "m">>
JsonSender ==
  <<"{", "\"", "s", "e", "n", "d", "e", "r", "\"", ":", "{", "\"", "s", "e",
    "n", "d", "e", "r", "A", "d", "d", "r", "e", "s", "s", "\"", ":", "{",
    "\"", "e", "m", "a", "i", "l", "\"", ":">>
JsonCompartmentId ==
  <<"}", ",", "\"", "c", "o", "m", "p", "a", "r", "t", "m", "e", "n", "t",
    "I", "d", "\"", ":">>
JsonRecipients ==
  <<"}", ",", "\"", "r", "e", "c", "i", "p", "i", "e", "n", "t", "s", "\"",
    ":", "{", "\"", "t", "o", "\"", ":", "[", "{", "\"", "e", "m", "a",
    "i", "l", "\"", ":">>
JsonSubject ==
  <<"}", "]", "}", ",", "\"", "s", "u", "b", "j", "e", "c", "t", "\"", ":">>
JsonBodyText ==
  <<",", "\"", "b", "o", "d", "y", "T", "e", "x", "t", "\"", ":">>

\* serde_json::to_string(&email) for an email with one recipient, no name,
\* no message id, no HTML body, no reply-to and no header fields.
SerializeEmail(email) ==
  JsonSender \o JsonString(email.sender_email)
  \o JsonCompartmentId \o JsonString(email.sender_compartment_id)
  \o JsonRecipients \o JsonString(email.to)
  \o JsonSubject \o JsonString(email.subject)
  \o (IF email.has_body_text
      THEN JsonBodyText \o JsonString(email.body_text) ELSE <<>>)
  \o <<"}">>

\* OciClient::compartment_id
CompartmentId(config) ==
  IF config.compartment_id = NoneText THEN config.tenancy_id ELSE config.compartment_id

\* format!("ctrl.email.{}.oci.oraclecloud.com", region)
ControlHost(config) == LitCtrlEmail \o config.region \o LitOracleCloud

\* The submit endpoint the email configuration names.
SubmitEndpoint == <<"s", "u", "b", "m", "i", "t", ".", "r", "1">>

LitCompartmentIdParam ==
  <<"c", "o", "m", "p", "a", "r", "t", "m", "e", "n", "t", "I", "d", "=">>
NameAuthorization ==
  <<"a", "u", "t", "h", "o", "r", "i", "z", "a", "t", "i", "o", "n">>
StateActive == <<"A", "C", "T", "I", "V", "E">>

\* An EmailClient operation has built what it signs and what it sends.
EmailBegin(t, s, op, method, path, host, has_body, body, email) ==
  /\ req[t].pc = "idle"
  /\ call[t].pc = "idle"
  /\ signer[s].pc = "live"
  /\ signer[s].owner = "client"
  /\ req' = [req EXCEPT ![t] =
       [NoReq EXCEPT !.pc = "built", !.op = op, !.signer = s, !.method = method,
                     !.path = path, !.host = host,
                     !.url = LitHttps \o host \o path,
                     !.has_body = has_body, !.body = body, !.email = email,
                     !.body_sha256 = IF has_body
                                     THEN Base64Encode(Sha256(AsBytes(body)))
                                     ELSE <<>>]]
  /\ UNCHANGED <<builder, env, recipients, email_builder, fs, next_ino, signer, call, now, load>>

\* EmailClient::get_email_configuration_internal, up to the sign call.
GetEmailConfiguration(t, s, compartment_id) ==
  EmailBegin(t, s, "get_email_configuration", MethodGet,
             LitConfigurationPath \o compartment_id,
             ControlHost(signer[s].config), FALSE, <<>>, <<>>)

\* EmailClient::list_senders, up to the sign call; an absent filter is
\* <<FALSE, <<>>>>.
ListSenders(t, s, compartment_id, lifecycle_state, email_address) ==
  EmailBegin(t, s, "list_senders", MethodGet,
             LitSendersPath \o LitCompartmentIdParam \o compartment_id
             \o (IF lifecycle_state[1]
                 THEN <<"&">> \o LitLifecycleState \o lifecycle_state[2] ELSE <<>>)
             \o (IF email_address[1]
                 THEN <<"&">> \o LitEmailAddress \o email_address[2] ELSE <<>>),
             ControlHost(signer[s].config), FALSE, <<>>, <<>>)

\* A send that writes the client's compartment id into every sender.
SendAlwaysSetsCompartment(t, s, email) ==
  EmailBegin(t, s, "send", <<"P", "O", "S", "T">>, LitSubmitPath, SubmitEndpoint, TRUE,
             SerializeEmail(
               [email EXCEPT !.sender_compartment_id = CompartmentId(signer[s].config)]),
             <<email>>)

\* EmailClient::send, up to the sign call: the sender's compartment id is
\* filled in when empty and the email serialized.
Send(t, s, email) ==
  EmailBegin(t, s, "send", <<"P", "O", "S", "T">>, LitSubmitPath, SubmitEndpoint, TRUE,
             SerializeEmail(
               IF email.sender_compartment_id = <<>>
               THEN [email EXCEPT !.sender_compartment_id =
                                     CompartmentId(signer[s].config)]
               ELSE email),
             <<email>>)

\* The operation calls signer().sign_request(method, path, host, body).
EmailSign(t) ==
  /\ req[t].pc = "built"
  /\ SignEnter(t, req[t].signer, "sign_request",
               ArgsOf("sign_request",
                      Args(req[t].method, req[t].path, req[t].host, req[t].has_body,
                           req[t].body, <<>>, FALSE, <<>>)))

\* The headers the operation attaches, in the order of its header calls.
AttachedHeaders(r, result) ==
  <<<<NameHost, r.host>>, <<NameDate, result.date>>,
    <<NameAuthorization, result.authorization>>>>
  \o (IF r.has_body
      THEN <<<<NameContentType, ApplicationJson>>,
             <<NameContentLength, UsizeToString(Len(AsBytes(r.body)))>>,
             <<NameContentSha256, r.body_sha256>>>>
      ELSE <<>>)

\* The sign call has returned: on Ok the request is built for the URL with
\* the headers and the body and handed to the HTTP client; on Err the
\* operation returns the error and sends nothing.
EmailAttach(t) ==
  /\ req[t].pc = "built"
  /\ call[t].pc = "returned"
  /\ req' = [req EXCEPT ![t] =
       IF call[t].result.kind = "Ok"
       THEN [req[t] EXCEPT
               !.pc = "sent",
               !.http = [method |-> req[t].method,
                         target |-> RequestTarget(req[t].url),
                         headers |-> AttachedHeaders(req[t], call[t].result),
                         has_body |-> req[t].has_body,
                         body |-> req[t].body]]
       ELSE [req[t] EXCEPT !.pc = "failed", !.err = call[t].result.err]]
  /\ UNCHANGED <<builder, env, recipients, email_builder, fs, next_ino, signer, call, now, load>>

\* The operation is over.
EmailDone(t) ==
  /\ req[t].pc \in {"sent", "failed"}
  /\ req' = [req EXCEPT ![t] = NoReq]
  /\ call' = [call EXCEPT ![t] = NoCall]
  /\ UNCHANGED <<builder, env, recipients, email_builder, fs, next_ino, signer, now, load>>

\* Emails, compartments and filters.
Emails ==
  {[sender_email |-> <<"a", "@", "x">>, sender_compartment_id |-> c,
    to |-> <<"b", "@", "x">>, subject |-> sub,
    has_body_text |-> TRUE, body_text |-> <<"t", LF>>] :
     c \in {<<>>, <<"c", "9">>},
     sub \in {<<"H", "i">>, <<"\"", EAcute>>}}

Compartments == {<<"c", "1">>}
LifecycleStates == {<<FALSE, <<>>>>, <<TRUE, StateActive>>}
EmailAddresses ==
  {<<FALSE, <<>>>>, <<TRUE, <<"a", "@", "x">>>>, <<TRUE, <<EAcute, "@", "x">>>>}

\* A configuration with a compartment id of its own.
CfgCompartment == [CfgInlineA EXCEPT !.compartment_id = <<"c", "7">>]

EmailConfigs == {CfgInlineA, CfgInlineShort, CfgPathA, CfgCompartment}

NextEmail ==
  \/ Construct(1, EmailConfigs)
  \/ \E c \in Compartments : GetEmailConfiguration(1, 1, c)
  \/ \E c \in Compartments, ls \in LifecycleStates, ea \in EmailAddresses :
       ListSenders(1, 1, c, ls, ea)
  \/ \E email \in Emails : Send(1, 1, email)
  \/ EmailSign(1)
  \/ SignRsa(1)
  \/ SignReturn(1)
  \/ EmailAttach(1)
  \/ EmailDone(1)
  \/ Tick

SpecEmail == Init /\ [][NextEmail]_vars

\* ------------------------------------------------------------------------
\* The request an operation sends against the request its signer signed (C20)
\* ------------------------------------------------------------------------

\* The value the signing string holds on the line labelled name.
SignedValue(signing_string, name) ==
  LET lines == Split(signing_string, LF)
      i == CHOOSE j \in 1..Len(lines) : Before(lines[j], ":") = name
  IN SubSeq(lines[i], Len(name) + 3, Len(lines[i]))

\* The names the headers attribute of an Authorization value lists.
SignedNames(authorization) ==
  LET names == Split(HeadersAttr(authorization), " ")
  IN {names[i] : i \in 1..Len(names)}

\* The value a sent request carries under a header name.
Attached(http, name) ==
  http.headers[CHOOSE i \in 1..Len(http.headers) : http.headers[i][1] = name][2]

AttachedNames(http) == {http.headers[i][1] : i \in 1..Len(http.headers)}

\* The operation of thread t has sent its request.
Sent(t) == req[t].pc = "sent" /\ Succeeded(call[t])

\* The headers of the request sent are the signed ones, each once and with
\* the signed value, next to the Authorization value the signer returned; a
\* body sent is the body signed, with its own length and digest.
HeadersAsSigned(t) ==
  LET http == req[t].http
      c == call[t]
  IN /\ Attached(http, NameAuthorization) = c.result.authorization
     /\ AttachedNames(http) \ {NameAuthorization}
          = SignedNames(c.result.authorization) \ {NameRequestTarget}
     /\ Cardinality(AttachedNames(http)) = Len(http.headers)
     /\ \A name \in AttachedNames(http) \ {NameAuthorization} :
          Attached(http, name) = SignedValue(c.signing_string, name)
     /\ Attached(http, NameDate) = c.result.date
     /\ http.has_body = c.has_body
     /\ http.has_body =>
          /\ http.body = c.body
          /\ Attached(http, NameContentLength) = UsizeToString(Len(AsBytes(http.body)))
          /\ Attached(http, NameContentSha256)
               = Base64Encode(Sha256(AsBytes(http.body)))

\* The request line of the request sent is the one signed: its method, and
\* the path with its query string.
TargetAsSigned(t) ==
  LET http == req[t].http
      c == call[t]
  IN /\ http.method = c.method
     /\ http.target = c.path
     /\ SignedValue(c.signing_string, NameRequestTarget)
          = ToLowercase(http.method) \o <<" ">> \o http.target

EmailHeadersAsSigned == \A t \in Threads : Sent(t) => HeadersAsSigned(t)

\* C20: the request an EmailClient operation sends carries exactly the
\* headers that were signed, with the values that were signed, and its
\* method and its path with the query string are the ones passed to the
\* signer.
C20_RequestSentIsRequestSigned ==
  \A t \in Threads : Sent(t) => HeadersAsSigned(t) /\ TargetAsSigned(t)

\* A list_senders request with an email address filter, and a send request,
\* have been sent.
C20_SentSendersQuery ==
  \E t \in Threads :
    /\ Sent(t)
    /\ req[t].op = "list_senders"
    /\ Contains(req[t].path, EAcute)

\* ------------------------------------------------------------------------
\* INI documents and ConfigLoader (auth/config_loader.rs)
\* ------------------------------------------------------------------------

\* An INI document is a text of lines: a section header is the one atom
\* "[NAME]", a property starts with the atom "key=" and its value is the
\* rest of the line.
SectionDefault == "[DEFAULT]"
SectionNames == {SectionDefault, "[OTHER]"}
PropertyKeys == {"user=", "tenancy=", "region=", "fingerprint=", "key_file=", "private_key="}

\* A position of the document starts a line, ends one.
LineStart(text, p) == p = 1 \/ text[p - 1] = LF
LineEnd(text, p) == p = Len(text) \/ text[p + 1] = LF
IsHeaderAt(text, p) == text[p] \in SectionNames /\ LineStart(text, p) /\ LineEnd(text, p)

\* Ini::load_from_str succeeds: every line is empty, a header or a property.
IniParses(text) ==
  /\ ~Contains(text, BadUtf8)
  /\ \A p \in 1..Len(text) :
       LineStart(text, p) /\ text[p] # LF
         => IsHeaderAt(text, p) \/ text[p] \in PropertyKeys

\* ini.section(Some(name)) is Some
HasSection(text, section) ==
  \E p \in 1..Len(text) : text[p] = section /\ IsHeaderAt(text, p)

\* The positions of the properties of a section: the lines after its
\* header, up to the next header.
SectionLines(text, section) ==
  {p \in 1..Len(text) :
     /\ text[p] \in PropertyKeys
     /\ LineStart(text, p)
     /\ \E h \in 1..(p - 1) :
          /\ text[h] = section
          /\ IsHeaderAt(text, h)
          /\ \A k \in (h + 1)..(p - 1) : ~IsHeaderAt(text, k)}

\* section.get(key): the value of the first property of that key, the rest
\* of its line, or None.
SectionGet(text, section, key) ==
  LET at == {p \in SectionLines(text, section) : text[p] = key}
      first == CHOOSE p \in at : \A q \in at : p <= q
      last == CHOOSE e \in first..Len(text) :
                LineEnd(text, e) /\ \A k \in (first + 1)..e : text[k] # LF
  IN IF at = {} THEN NoneText ELSE SubSeq(text, first + 1, last)

\* The DEFAULT section as section.get sees it: key -> value or None.
Properties(text) == [key \in PropertyKeys |-> SectionGet(text, SectionDefault, key)]

\* ConfigLoader::build_config_from_section: the five fields are required;
\* "~/" in key_file is replaced by $HOME; the key is loaded from the path,
\* and the loaded text goes through OciConfigBuilder::private_key, which
\* loads it once more.
BuildConfigFromSection(fsys, home, text) ==
  LET section == Properties(text)
      get(key) == section[key]
      key_file == get("key_file=")
      tilde == Len(key_file) >= 2 /\ key_file[1] = "~" /\ key_file[2] = "/"
      key_path == IF tilde THEN home \o Tail(key_file) ELSE key_file
      first == Load(fsys, key_path)
      second == Load(fsys, first.text)
  IN IF get("user=") = NoneText THEN ConfigErr("ConfigError", "user field not found in config")
     ELSE IF get("tenancy=") = NoneText
       THEN ConfigErr("ConfigError", "tenancy field not found in config")
     ELSE IF get("region=") = NoneText
       THEN ConfigErr("ConfigError", "region field not found in config")
     ELSE IF get("fingerprint=") = NoneText
       THEN ConfigErr("ConfigError", "fingerprint field not found in config")
     ELSE IF key_file = NoneText
       THEN ConfigErr("ConfigError", "key_file field not found in config")
     ELSE IF tilde /\ home = NoneText
       THEN ConfigErr("EnvError", "Cannot find HOME environment variable")
     ELSE IF first.kind = "Err" THEN ConfigErr(first.err, first.why)
     ELSE IF second.kind = "Err" THEN ConfigErr(second.err, second.why)
     ELSE ConfigOk([user_id |-> get("user="), tenancy_id |-> get("tenancy="),
                    region |-> get("region="), fingerprint |-> get("fingerprint="),
                    private_key |-> second.text, compartment_id |-> NoneText])

\* ConfigLoader::load_from_ini_content, profile DEFAULT
LoadFromIniContent(fsys, home, content) ==
  IF ~IniParses(content) THEN ConfigErr("IniError", "Failed to parse INI content")
  ELSE IF ~HasSection(content, SectionDefault)
    THEN ConfigErr("ConfigError", "Profile not found in INI content")
  ELSE BuildConfigFromSection(fsys, home, content)

\* ConfigLoader::load_from_file, profile DEFAULT
ConfigLoadFromFile(fsys, home, path) ==
  IF ~FileAt(fsys, path).exists \/ ~IniParses(FileAt(fsys, path).content)
    THEN ConfigErr("IniError", "Failed to load INI file")
  ELSE IF ~HasSection(FileAt(fsys, path).content, SectionDefault)
    THEN ConfigErr("ConfigError", "Profile not found")
  ELSE BuildConfigFromSection(fsys, home, FileAt(fsys, path).content)

\* ConfigLoader::load_from_env_var: a value that names an existing file is
\* a path, any other value is INI content.
LoadFromEnvVar(fsys, home, config_value) ==
  IF FileAt(fsys, config_value).exists
  THEN ConfigLoadFromFile(fsys, home, config_value)
  ELSE LoadFromIniContent(fsys, home, config_value)

\* ConfigLoader::load_partial_from_env_var: the four identity fields that
\* the DEFAULT section holds, in a config whose other fields stay absent.
LoadPartialFromEnvVar(fsys, config_value) ==
  LET content == IF FileAt(fsys, config_value).exists
                 THEN FileAt(fsys, config_value).content ELSE config_value
      section == Properties(content)
      get(key) == section[key]
  IN IF ~IniParses(content) THEN ConfigErr("ConfigError", "Failed to load or parse")
     ELSE IF ~HasSection(content, SectionDefault)
       THEN ConfigErr("ConfigError", "Profile not found")
     ELSE ConfigOk([NoConfig EXCEPT !.user_id = get("user="),
                                    !.tenancy_id = get("tenancy="),
                                    !.region = get("region="),
                                    !.fingerprint = get("fingerprint=")])

\* ------------------------------------------------------------------------
\* OciConfigBuilder (auth/config.rs)
\* ------------------------------------------------------------------------

ConfigFields ==
  {"user_id", "tenancy_id", "region", "fingerprint", "private_key", "compartment_id"}

\* The bound on the setter calls made on one builder.
MaxSetterCalls == 5

\* A build that asks for the compartment id as well.
BuildRequiresCompartment(b) ==
  IF b.fields.user_id = NoneText THEN ConfigErr("ConfigError", "user_id is not set")
  ELSE IF b.fields.tenancy_id = NoneText
    THEN ConfigErr("ConfigError", "tenancy_id is not set")
  ELSE IF b.fields.region = NoneText THEN ConfigErr("ConfigError", "region is not set")
  ELSE IF b.fields.fingerprint = NoneText
    THEN ConfigErr("ConfigError", "fingerprint is not set")
  ELSE IF b.fields.private_key = NoneText
    THEN ConfigErr("ConfigError", "private_key is not set")
  ELSE IF b.fields.compartment_id = NoneText
    THEN ConfigErr("ConfigError", "compartment_id is not set")
  ELSE ConfigOk(b.fields)

\* OciConfigBuilder::build: the first absent field of user_id, tenancy_id,
\* region, fingerprint, private_key fails the build with its name.
Build(b) ==
  IF b.fields.user_id = NoneText THEN ConfigErr("ConfigError", "user_id is not set")
  ELSE IF b.fields.tenancy_id = NoneText
    THEN ConfigErr("ConfigError", "tenancy_id is not set")
  ELSE IF b.fields.region = NoneText THEN ConfigErr("ConfigError", "region is not set")
  ELSE IF b.fields.fingerprint = NoneText
    THEN ConfigErr("ConfigError", "fingerprint is not set")
  ELSE IF b.fields.private_key = NoneText
    THEN ConfigErr("ConfigError", "private_key is not set")
  ELSE ConfigOk(b.fields)

\* The setters user_id, tenancy_id, region, fingerprint, compartment_id.
BuilderSet(field, value) ==
  /\ builder.pc = "open"
  /\ Len(builder.log) < MaxSetterCalls
  /\ builder' = [builder EXCEPT !.fields[field] = value,
                                !.log = Append(@, <<field, value>>)]
  /\ UNCHANGED <<fs, next_ino, signer, call, now, load, req, env, recipients,
                 email_builder>>

\* OciConfigBuilder::private_key: the input goes through KeyLoader::load; a
\* failed load is returned and the builder is gone.
BuilderPrivateKey(input) ==
  /\ builder.pc = "open"
  /\ Len(builder.log) < MaxSetterCalls
  /\ builder' =
       IF Load(fs, input).kind = "Ok"
       THEN [builder EXCEPT !.fields.private_key = Load(fs, input).text,
                            !.log = Append(@, <<"private_key", input>>)]
       ELSE [builder EXCEPT !.pc = "setter_failed",
                            !.log = Append(@, <<"private_key", input>>),
                            !.result = ConfigErr(Load(fs, input).err, Load(fs, input).why)]
  /\ UNCHANGED <<fs, next_ino, signer, call, now, load, req, env, recipients,
                 email_builder>>

\* OciConfigBuilder::config: the five fields of the loaded file are set, the
\* compartment id is left as it is.
BuilderConfig(path) ==
  LET loaded == ConfigLoadFromFile(fs, env.vars["HOME"], path) IN
  /\ builder.pc = "open"
  /\ Len(builder.log) < MaxSetterCalls
  /\ builder' =
       IF loaded.kind = "Ok"
       THEN [builder EXCEPT
               !.fields = [loaded.config EXCEPT
                             !.compartment_id = builder.fields.compartment_id],
               !.log = Append(@, <<"config", path>>)]
       ELSE [builder EXCEPT !.pc = "setter_failed",
                            !.log = Append(@, <<"config", path>>),
                            !.result = loaded]
  /\ UNCHANGED <<fs, next_ino, signer, call, now, load, req, env, recipients,
                 email_builder>>

BuilderBuild ==
  /\ builder.pc = "open"
  /\ builder' = [builder EXCEPT !.pc = "built", !.result = Build(builder)]
  /\ UNCHANGED <<fs, next_ino, signer, call, now, load, req, env, recipients,
                 email_builder>>

\* Another builder is started.
BuilderNew ==
  /\ builder.pc \in {"built", "setter_failed"}
  /\ builder' = NoBuilder
  /\ UNCHANGED <<fs, next_ino, signer, call, now, load, req, env, recipients,
                 email_builder>>

\* INI files and documents.
PathOciConfig == <<"/cfg/oci">>
IniFull ==
  <<LF, SectionDefault, LF, "user=", "u", "F", LF, "tenancy=", "t", "F", LF,
    "region=", "r", "F", LF, "fingerprint=", "f", "F", LF,
    "key_file=", "/keys/a.pem", LF>>

\* The setter arguments a caller passes.
SetterValues ==
  [user_id |-> {<<"u", "1">>, <<"u", "2">>}, tenancy_id |-> {<<"t", "1">>},
   region |-> {<<"r", "1">>}, fingerprint |-> {<<"f", "1">>},
   compartment_id |-> {<<"c", "1">>}]

InitConfig ==
  /\ fs = [p \in AllPaths \cup {PathOciConfig} |->
             IF p = PathOciConfig
             THEN [exists |-> TRUE, content |-> IniFull, owner_only |-> TRUE, ino |-> 3]
             ELSE InitFs[p]]
  /\ next_ino = 4
  /\ signer = [s \in Slots |-> NoSigner]
  /\ call = [t \in Threads |-> NoCall]
  /\ now = 1
  /\ load = NoLoad
  /\ req = [t \in Threads |-> NoReq]
  /\ builder = NoBuilder
  /\ env = NoEnv
  /\ recipients = NoRecipients
  /\ email_builder = NoEmailBuilder

NextBuilder ==
  \/ \E f \in DOMAIN SetterValues : \E v \in SetterValues[f] : BuilderSet(f, v)
  \/ \E input \in {Pem(DerA), PathMissing} : BuilderPrivateKey(input)
  \/ \E path \in {PathOciConfig, PathMissing} : BuilderConfig(path)
  \/ BuilderBuild
  \/ BuilderNew

SpecBuilder == InitConfig /\ [][NextBuilder]_vars

\* The setter calls of the log that set a field: the setter of that name,
\* and config for the five fields it loads.
SetsField(entry, field) ==
  entry[1] = field \/ (entry[1] = "config" /\ field # "compartment_id")

WasSet(log, field) == \E i \in 1..Len(log) : SetsField(log[i], field)

\* The last call of the log that set the field.
LastSet(log, field) ==
  CHOOSE i \in 1..Len(log) :
    SetsField(log[i], field) /\ \A j \in (i + 1)..Len(log) : ~SetsField(log[j], field)

\* The value a call of the log gives a field: the setter's argument, the
\* loaded text of a key input, a field of the loaded file.
ValueSet(entry, field) ==
  IF entry[1] = "config" THEN ConfigLoadFromFile(fs, NoneText, entry[2]).config[field]
  ELSE IF entry[1] = "private_key" THEN Load(fs, entry[2]).text
  ELSE entry[2]

RequiredFields == ConfigFields \ {"compartment_id"}

\* The message that names a missing field.
NotSetMessage ==
  [user_id |-> "user_id is not set", tenancy_id |-> "tenancy_id is not set",
   region |-> "region is not set", fingerprint |-> "fingerprint is not set",
   private_key |-> "private_key is not set"]

\* C21: build succeeds exactly when user_id, tenancy_id, region, fingerprint
\* and private_key have each been set by some setter call, whatever the
\* order and number of the calls; the config then holds for each field the
\* value of the last call that set it, and the compartment id need not be
\* set. When a required field is missing build fails with a ConfigError
\* that names a missing field, and returns no config.
C21_BuildNeedsTheFiveFields ==
  builder.pc = "built" =>
    LET log == builder.log
        r == builder.result
    IN /\ r.kind = "Ok" <=> \A f \in RequiredFields : WasSet(log, f)
       /\ r.kind = "Ok" =>
            \A f \in ConfigFields :
              r.config[f] = IF WasSet(log, f) THEN ValueSet(log[LastSet(log, f)], f)
                            ELSE NoneText
       /\ r.kind # "Ok" =>
            /\ r.kind = "Err" /\ r.err = "ConfigError" /\ r.config = NoConfig
            /\ \E f \in RequiredFields :
                 /\ ~WasSet(log, f)
                 /\ r.why = NotSetMessage[f]

\* A build that succeeded without a compartment id, from a loaded file whose
\* user id was then set twice.
C21_Witness ==
  /\ builder.pc = "built"
  /\ builder.result.kind = "Ok"
  /\ builder.result.config.compartment_id = NoneText
  /\ builder.result.config.user_id = <<"u", "2">>
  /\ builder.log = <<<<"config", PathOciConfig>>, <<"user_id", <<"u", "1">>>>,
                     <<"user_id", <<"u", "2">>>>>>

\* ------------------------------------------------------------------------
\* OciConfig::from_env (auth/config.rs)
\* ------------------------------------------------------------------------

\* The variable that overrides each identity field, and the key of the
\* field in an OCI config file.
IdentityFields == <<"user_id", "tenancy_id", "region", "fingerprint">>
VarOf ==
  [user_id |-> "OCI_USER_ID", tenancy_id |-> "OCI_TENANCY_ID", region |-> "OCI_REGION",
   fingerprint |-> "OCI_FINGERPRINT"]
MustBeSet ==
  [user_id |-> "OCI_USER_ID must be set", tenancy_id |-> "OCI_TENANCY_ID must be set",
   region |-> "OCI_REGION must be set", fingerprint |-> "OCI_FINGERPRINT must be set"]

\* env::var(name).ok().or_else(|| partial_config...): the variable, else
\* the field of the partial configuration, else None.
Merged(v, partial, field) ==
  IF v[VarOf[field]] # NoneText THEN v[VarOf[field]] ELSE partial[field]

\* full_config.private_key, or the error of the full load, in the shape of
\* a load result.
KeyOfFullConfig(full) ==
  IF full.kind = "Ok" THEN LoadOk(full.config.private_key, {})
  ELSE LoadErr(full.err, full.why, {})

\* from_env, step 3: the key is loaded from OCI_PRIVATE_KEY when it is set,
\* else taken from the full configuration that OCI_CONFIG loads, else the
\* call fails.
FromEnvPrivateKey(fsys, v) ==
  IF v["OCI_PRIVATE_KEY"] # NoneText THEN Load(fsys, v["OCI_PRIVATE_KEY"])
  ELSE IF v["OCI_CONFIG"] # NoneText
    THEN KeyOfFullConfig(LoadFromEnvVar(fsys, v["HOME"], v["OCI_CONFIG"]))
  ELSE LoadErr("EnvError", "OCI_PRIVATE_KEY must be set", {})

\* from_env, step 1: the partial configuration of OCI_CONFIG when it is set.
FromEnvPartial(fsys, v) ==
  IF v["OCI_CONFIG"] # NoneText THEN LoadPartialFromEnvVar(fsys, v["OCI_CONFIG"])
  ELSE ConfigOk(NoConfig)

\* A merge that goes on without a base when OCI_CONFIG did not load.
FromEnvMergeLenient(v, loaded, key) ==
  LET missing == {i \in 1..4 : Merged(v, loaded.config, IdentityFields[i]) = NoneText}
  IN IF missing # {}
       THEN ConfigErr("EnvError",
                      MustBeSet[IdentityFields[CHOOSE i \in missing :
                                                 \A j \in missing : i <= j]])
     ELSE IF key.kind = "Err" THEN ConfigErr(key.err, key.why)
     ELSE ConfigOk([user_id |-> Merged(v, loaded.config, "user_id"),
                    tenancy_id |-> Merged(v, loaded.config, "tenancy_id"),
                    region |-> Merged(v, loaded.config, "region"),
                    fingerprint |-> Merged(v, loaded.config, "fingerprint"),
                    private_key |-> key.text,
                    compartment_id |-> v["OCI_COMPARTMENT_ID"]])

\* from_env after the partial load: its error is returned; else the four
\* fields are merged in the order user_id, tenancy_id, region, fingerprint,
\* the first that is missing failing the call; then the key step; then the
\* compartment id is read.
FromEnvMerge(v, loaded, key) ==
  LET missing == {i \in 1..4 : Merged(v, loaded.config, IdentityFields[i]) = NoneText}
  IN IF loaded.kind = "Err" THEN loaded
     ELSE IF missing # {}
       THEN ConfigErr("EnvError",
                      MustBeSet[IdentityFields[CHOOSE i \in missing :
                                                 \A j \in missing : i <= j]])
     ELSE IF key.kind = "Err" THEN ConfigErr(key.err, key.why)
     ELSE ConfigOk([user_id |-> Merged(v, loaded.config, "user_id"),
                    tenancy_id |-> Merged(v, loaded.config, "tenancy_id"),
                    region |-> Merged(v, loaded.config, "region"),
                    fingerprint |-> Merged(v, loaded.config, "fingerprint"),
                    private_key |-> key.text,
                    compartment_id |-> v["OCI_COMPARTMENT_ID"]])

\* OciConfig::from_env
FromEnv(fsys, v) == FromEnvMerge(v, FromEnvPartial(fsys, v), FromEnvPrivateKey(fsys, v))

\* std::env::set_var and remove_var, between calls.
SetVar(name, value) ==
  /\ env.pc = "idle"
  /\ env.vars[name] # value
  /\ env' = [env EXCEPT !.vars[name] = value]
  /\ UNCHANGED <<fs, next_ino, signer, call, now, load, req, builder, recipients,
                 email_builder>>

RemoveVar(name) ==
  /\ env.pc = "idle"
  /\ env.vars[name] # NoneText
  /\ env' = [env EXCEPT !.vars[name] = NoneText]
  /\ UNCHANGED <<fs, next_ino, signer, call, now, load, req, builder, recipients,
                 email_builder>>

FromEnvCall ==
  /\ env.pc = "idle"
  /\ env' = [env EXCEPT !.pc = "returned", !.result = FromEnv(fs, env.vars)]
  /\ UNCHANGED <<fs, next_ino, signer, call, now, load, req, builder, recipients,
                 email_builder>>

\* The caller is done with the result.
FromEnvConsume ==
  /\ env.pc = "returned"
  /\ env' = [env EXCEPT !.pc = "idle", !.result = NoConfigResult]
  /\ UNCHANGED <<fs, next_ino, signer, call, now, load, req, builder, recipients,
                 email_builder>>

\* OCI_CONFIG values: documents with all fields, without key_file, with
\* key_file alone, with a key_file under the home directory, without a
\* DEFAULT profile; the path of a file; a path that names no file.
IniIdentityOnly ==
  <<LF, SectionDefault, LF, "user=", "u", "F", LF, "tenancy=", "t", "F", LF,
    "region=", "r", "F", LF, "fingerprint=", "f", "F", LF,
    "private_key=", "x", LF>>
IniKeyFileOnly == <<SectionDefault, LF, "key_file=", "/keys/a.pem">>
IniUserAndKeyFile ==
  <<SectionDefault, LF, "user=", "u", "F", LF, "key_file=", "~", "/", "k">>
IniOtherProfile == <<"[OTHER]", LF, "user=", "u", "F", LF, "key_file=", "/keys/a.pem">>

EnvValues ==
  [n \in EnvNames |->
     CASE n = "OCI_CONFIG" ->
            {IniFull, IniIdentityOnly, IniKeyFileOnly, IniUserAndKeyFile, IniOtherProfile,
             PathOciConfig, PathMissing}
       [] n = "OCI_USER_ID" -> {<<"u", "E">>}
       [] n = "OCI_TENANCY_ID" -> {<<"t", "E">>}
       [] n = "OCI_REGION" -> {<<"r", "E">>}
       [] n = "OCI_FINGERPRINT" -> {<<"f", "E">>}
       [] n = "OCI_PRIVATE_KEY" -> {Pem(DerB), PathKeyA, PathMissing}
       [] n = "OCI_COMPARTMENT_ID" -> {<<"c", "E">>}
       [] n = "HOME" -> {<<"/home">>}]

NextEnv ==
  \/ \E n \in EnvNames : \E value \in EnvValues[n] : SetVar(n, value)
  \/ \E n \in EnvNames : RemoveVar(n)
  \/ FromEnvCall
  \/ FromEnvConsume

SpecEnv == InitConfig /\ [][NextEnv]_vars

\* ------------------------------------------------------------------------
\* from_env against the environment it read (C22, C23)
\* ------------------------------------------------------------------------

KeyOf ==
  [user_id |-> "user=", tenancy_id |-> "tenancy=", region |-> "region=",
   fingerprint |-> "fingerprint=", key_file |-> "key_file="]

\* The text of OCI_CONFIG: the content of the file it names, or the value.
ConfigContent ==
  IF FileAt(fs, env.vars["OCI_CONFIG"]).exists
  THEN FileAt(fs, env.vars["OCI_CONFIG"]).content ELSE env.vars["OCI_CONFIG"]

\* OCI_CONFIG is set and is an INI document with a DEFAULT profile.
ConfigLoads ==
  /\ env.vars["OCI_CONFIG"] # NoneText
  /\ IniParses(ConfigContent)
  /\ HasSection(ConfigContent, SectionDefault)

\* The value of a field in the DEFAULT profile of OCI_CONFIG, if any.
DefaultValue(f) ==
  IF ConfigLoads THEN SectionGet(ConfigContent, SectionDefault, KeyOf[f]) ELSE NoneText

\* The individual variable if set, else the value in OCI_CONFIG, if any.
Resolved(f) ==
  IF env.vars[VarOf[f]] # NoneText THEN env.vars[VarOf[f]] ELSE DefaultValue(f)

IdentityResolvable == \A f \in DOMAIN VarOf : Resolved(f) # NoneText

\* What from_env says of the four fields, for a returned call.
FieldsAsResolved ==
  LET r == env.result IN
  /\ ~IdentityResolvable => r.kind = "Err" /\ r.err = "EnvError"
  /\ r.kind = "Ok" => \A f \in DOMAIN VarOf : r.config[f] = Resolved(f)
  /\ IdentityResolvable /\ FromEnvPrivateKey(fs, env.vars).kind = "Ok" => r.kind = "Ok"

KeyFilePath ==
  LET key_file == DefaultValue("key_file") IN
  IF Len(key_file) >= 2 /\ key_file[1] = "~" /\ key_file[2] = "/"
  THEN env.vars["HOME"] \o Tail(key_file) ELSE key_file

\* OCI_CONFIG holds a key_file that load reads.
KeyFileReadable == DefaultValue("key_file") # NoneText /\ Load(fs, KeyFilePath).kind = "Ok"

\* The key of a returned call whose identity fields are resolvable: from
\* OCI_PRIVATE_KEY when set, else from the key_file when `usable`, else the
\* call fails.
KeyAsStated(usable) ==
  LET r == env.result
      given == Load(fs, env.vars["OCI_PRIVATE_KEY"])
  IN IF env.vars["OCI_PRIVATE_KEY"] # NoneText
       THEN IF given.kind = "Ok"
            THEN r.kind = "Ok" /\ r.config.private_key = given.text
            ELSE r.kind = "Err"
     ELSE IF usable
       THEN r.kind = "Ok" /\ r.config.private_key = Load(fs, KeyFilePath).text
     ELSE r.kind = "Err"

\* C23: from_env takes the private key from OCI_PRIVATE_KEY when it is set,
\* whatever OCI_CONFIG holds, otherwise from the key_file of OCI_CONFIG
\* whenever OCI_CONFIG is set and contains a key_file, and fails when
\* neither is available; with OCI_PRIVATE_KEY unset, a call whose four
\* identity fields are resolvable and whose OCI_CONFIG contains a readable
\* key_file succeeds. (Stated for the calls whose OCI_CONFIG, when set,
\* loads.)
C23_KeyFromVariableElseKeyFile ==
  /\ env.pc = "returned"
  /\ env.vars["OCI_CONFIG"] = NoneText \/ ConfigLoads
  /\ IdentityResolvable
  => KeyAsStated(KeyFileReadable)

\* The same with the key_file used only when OCI_CONFIG itself holds the
\* four identity fields.
KeyFileNeedsFullConfig ==
  /\ env.pc = "returned"
  /\ env.vars["OCI_CONFIG"] = NoneText \/ ConfigLoads
  /\ IdentityResolvable
  => KeyAsStated(KeyFileReadable /\ \A f \in DOMAIN VarOf : DefaultValue(f) # NoneText)

\* A call with OCI_PRIVATE_KEY unset that took the key from the key_file.
C23_KeyFromKeyFile ==
  /\ env.pc = "returned"
  /\ env.result.kind = "Ok"
  /\ env.vars["OCI_PRIVATE_KEY"] = NoneText
  /\ env.result.config.private_key = Pem(DerA)


\* ---------------------------------------------------------------------------
\* Recipients and RecipientsBuilder (services/email/models.rs)
\* ---------------------------------------------------------------------------

\* EmailAddress::new and EmailAddress::with_name.
EmailAddressNew(email) == [email |-> email, name |-> NoneText]

EmailAddressWithName(email, name) == [email |-> email, name |-> name]

\* impl PartialEq for EmailAddress: the email alone decides.
AddressEq(a, b) == a.email = b.email

\* A variant of deduplicate that keeps the last address of each email.
DeduplicateKeepLast(addresses) ==
  LET n == Len(addresses)
      F[i \in 0..n] ==
        IF i = 0 THEN <<>>
        ELSE LET addr == addresses[i]
             IN  Append(SelectSeq(F[i - 1], LAMBDA x : ~AddressEq(x, addr)), addr)
  IN  F[n]

\* Recipients::deduplicate: a HashSet of the addresses seen so far (hashed and
\* compared by email); an address passes the filter when its insert is new.
Deduplicate(addresses) ==
  LET n == Len(addresses)
      F[i \in 0..n] ==
        IF i = 0 THEN [seen |-> {}, out |-> <<>>]
        ELSE LET prev == F[i - 1]
                 addr == addresses[i]
             IN  IF addr.email \in prev.seen
                 THEN prev
                 ELSE [seen |-> prev.seen \cup {addr.email},
                       out  |-> Append(prev.out, addr)]
  IN  F[n].out

\* One of add_to / add_cc / add_bcc on one Option<Vec<EmailAddress>>.
AddList(old, addresses) ==
  IF old.some
  THEN SomeList(Deduplicate(old.list \o addresses))
  ELSE SomeList(Deduplicate(addresses))

MaxRecipientCalls == 2

ListNames == {"to", "cc", "bcc"}

NoGiven == [to |-> <<>>, cc |-> <<>>, bcc |-> <<>>]

\* Recipients::to, Recipients::cc, Recipients::bcc: one list, the others None.
RecipientsOnly(which, addresses) ==
  [kind  |-> "value",
   to    |-> IF which = "to" THEN SomeList(Deduplicate(addresses)) ELSE NoList,
   cc    |-> IF which = "cc" THEN SomeList(Deduplicate(addresses)) ELSE NoList,
   bcc   |-> IF which = "bcc" THEN SomeList(Deduplicate(addresses)) ELSE NoList,
   given |-> [NoGiven EXCEPT ![which] = addresses],
   calls |-> 1]

\* Recipients::new is an alias of Recipients::to.
RecipientsNew(addresses) ==
  recipients' = RecipientsOnly("to", addresses)
  /\ UNCHANGED <<builder, env, email_builder, fs, next_ino, signer, call, now, load, req>>

RecipientsTo(addresses) ==
  recipients' = RecipientsOnly("to", addresses)
  /\ UNCHANGED <<builder, env, email_builder, fs, next_ino, signer, call, now, load, req>>

RecipientsCc(addresses) ==
  recipients' = RecipientsOnly("cc", addresses)
  /\ UNCHANGED <<builder, env, email_builder, fs, next_ino, signer, call, now, load, req>>

RecipientsBcc(addresses) ==
  recipients' = RecipientsOnly("bcc", addresses)
  /\ UNCHANGED <<builder, env, email_builder, fs, next_ino, signer, call, now, load, req>>

AddTo(addresses) ==
  /\ recipients.kind = "value"
  /\ recipients.calls < MaxRecipientCalls
  /\ recipients' = [recipients EXCEPT !.to = AddList(@, addresses),
                                      !.given.to = @ \o addresses,
                                      !.calls = @ + 1]
  /\ UNCHANGED <<builder, env, email_builder, fs, next_ino, signer, call, now, load, req>>

AddCc(addresses) ==
  /\ recipients.kind = "value"
  /\ recipients.calls < MaxRecipientCalls
  /\ recipients' = [recipients EXCEPT !.cc = AddList(@, addresses),
                                      !.given.cc = @ \o addresses,
                                      !.calls = @ + 1]
  /\ UNCHANGED <<builder, env, email_builder, fs, next_ino, signer, call, now, load, req>>

AddBcc(addresses) ==
  /\ recipients.kind = "value"
  /\ recipients.calls < MaxRecipientCalls
  /\ recipients' = [recipients EXCEPT !.bcc = AddList(@, addresses),
                                      !.given.bcc = @ \o addresses,
                                      !.calls = @ + 1]
  /\ UNCHANGED <<builder, env, email_builder, fs, next_ino, signer, call, now, load, req>>

\* Recipients::builder: RecipientsBuilder::default().
RecipientsBuilderNew ==
  recipients' = [NoRecipients EXCEPT !.kind = "builder"]
  /\ UNCHANGED <<builder, env, email_builder, fs, next_ino, signer, call, now, load, req>>

\* RecipientsBuilder::to / cc / bcc replace the list.
RecipientsBuilderTo(addresses) ==
  /\ recipients.kind = "builder"
  /\ recipients.calls < MaxRecipientCalls
  /\ recipients' = [recipients EXCEPT !.to = SomeList(Deduplicate(addresses)),
                                      !.given.to = addresses,
                                      !.calls = @ + 1]
  /\ UNCHANGED <<builder, env, email_builder, fs, next_ino, signer, call, now, load, req>>

RecipientsBuilderCc(addresses) ==
  /\ recipients.kind = "builder"
  /\ recipients.calls < MaxRecipientCalls
  /\ recipients' = [recipients EXCEPT !.cc = SomeList(Deduplicate(addresses)),
                                      !.given.cc = addresses,
                                      !.calls = @ + 1]
  /\ UNCHANGED <<builder, env, email_builder, fs, next_ino, signer, call, now, load, req>>

RecipientsBuilderBcc(addresses) ==
  /\ recipients.kind = "builder"
  /\ recipients.calls < MaxRecipientCalls
  /\ recipients' = [recipients EXCEPT !.bcc = SomeList(Deduplicate(addresses)),
                                      !.given.bcc = addresses,
                                      !.calls = @ + 1]
  /\ UNCHANGED <<builder, env, email_builder, fs, next_ino, signer, call, now, load, req>>

\* RecipientsBuilder::build moves the three lists into a Recipients.
RecipientsBuilderBuild ==
  /\ recipients.kind = "builder"
  /\ recipients' = [recipients EXCEPT !.kind = "value"]
  /\ UNCHANGED <<builder, env, email_builder, fs, next_ino, signer, call, now, load, req>>

AddrA == EmailAddressNew(<<"a", "@", "x">>)

AddrANamed == EmailAddressWithName(<<"a", "@", "x">>, <<"A", "n", "n">>)

AddrB == EmailAddressNew(<<"b", "@", "x">>)

AddrC == EmailAddressWithName(<<"c", "@", "x">>, <<"C">>)

AddressPool == {AddrA, AddrANamed, AddrB, AddrC}

AddressVectors ==
  {<<>>} \cup {<<a>> : a \in AddressPool}
         \cup {<<a, b>> : a \in AddressPool, b \in AddressPool}

NextRecipients ==
  \/ \E v \in AddressVectors : RecipientsNew(v)
  \/ \E v \in AddressVectors : RecipientsTo(v)
  \/ \E v \in AddressVectors : RecipientsCc(v)
  \/ \E v \in AddressVectors : RecipientsBcc(v)
  \/ \E v \in AddressVectors : AddTo(v)
  \/ \E v \in AddressVectors : AddCc(v)
  \/ \E v \in AddressVectors : AddBcc(v)
  \/ RecipientsBuilderNew
  \/ \E v \in AddressVectors : RecipientsBuilderTo(v)
  \/ \E v \in AddressVectors : RecipientsBuilderCc(v)
  \/ \E v \in AddressVectors : RecipientsBuilderBcc(v)
  \/ RecipientsBuilderBuild

SpecRecipients == InitConfig /\ [][NextRecipients]_vars

\* The positions of `given` whose email did not occur at an earlier position.
FirstPositions(given) ==
  {i \in 1..Len(given) : \A j \in 1..(i - 1) : given[j].email # given[i].email}

NoEmailTwice(list) ==
  \A i, j \in 1..Len(list) : list[i].email = list[j].email => i = j

\* `list` is `given` with only the first address of each email, in the order
\* of `given`.
IsFirstAppearances(list, given) ==
  LET firsts == FirstPositions(given)
  IN  /\ Len(list) = Cardinality(firsts)
      /\ \A k \in 1..Len(list) :
           \E i \in firsts :
             /\ Cardinality({j \in firsts : j < i}) = k - 1
             /\ list[k] = given[i]

\* C24: through the constructors, add_to/add_cc/add_bcc and the builder's
\* setters, no list of a Recipients (or of its builder) holds two addresses
\* with the same email, whatever their names; of the addresses given for a
\* list the first with each email is the one kept, in the order of first
\* appearance.
C24_ListsHoldFirstAppearances ==
  \A l \in ListNames :
    recipients[l].some =>
      /\ NoEmailTwice(recipients[l].list)
      /\ IsFirstAppearances(recipients[l].list, recipients.given[l])

\* A Recipients value whose To list was built by a constructor and an add
\* call, where a later address with a known email and another name was
\* dropped and a new one was appended after the kept ones.
C24_Witness ==
  /\ recipients.kind = "value"
  /\ recipients.calls = 2
  /\ recipients.given.to = <<AddrB, AddrA, AddrANamed, AddrC>>
  /\ recipients.to.list = <<AddrB, AddrA, AddrC>>


\* ---------------------------------------------------------------------------
\* EmailBuilder (services/email/models.rs)
\* ---------------------------------------------------------------------------

EmailOk(email) == [kind |-> "Ok", email |-> Some(email), err |-> "None", why |-> "none"]

EmailErr(why) == [kind |-> "Err", email |-> None, err |-> "ConfigError", why |-> why]

\* struct Email, with the Sender that build makes of the sender address.
EmailOf(f, sender) ==
  [message_id |-> f.message_id,
   sender     |-> sender,
   recipients |-> f.recipients[1],
   subject    |-> f.subject[1],
   body_html  |-> f.body_html,
   body_text  |-> f.body_text,
   reply_to   |-> f.reply_to,
   headers    |-> f.headers]

\* A variant of build that asks for both bodies.
EmailBuildBothBodies(f) ==
  IF f.sender = None THEN EmailErr("Sender is required")
  ELSE IF f.recipients = None THEN EmailErr("Recipients are required")
  ELSE IF f.subject = None THEN EmailErr("Subject is required")
  ELSE IF f.body_html = None \/ f.body_text = None
    THEN EmailErr("At least one of body_html or body_text is required")
  ELSE EmailOk(EmailOf(f, [sender_address |-> f.sender[1], compartment_id |-> <<>>]))

\* EmailBuilder::build on the builder's fields.
EmailBuild(f) ==
  IF f.sender = None THEN EmailErr("Sender is required")
  ELSE IF f.recipients = None THEN EmailErr("Recipients are required")
  ELSE IF f.subject = None THEN EmailErr("Subject is required")
  ELSE IF f.body_html = None /\ f.body_text = None
    THEN EmailErr("At least one of body_html or body_text is required")
  ELSE EmailOk(EmailOf(f, [sender_address |-> f.sender[1], compartment_id |-> <<>>]))

\* Email::builder().
EmailBuilderNew ==
  email_builder' = NoEmailBuilder
  /\ UNCHANGED <<builder, env, recipients, fs, next_ino, signer, call, now, load, req>>

EmailBuilderSet(field, value) ==
  /\ email_builder.pc = "open"
  /\ email_builder' = [email_builder EXCEPT !.fields[field] = Some(value)]
  /\ UNCHANGED <<builder, env, recipients, fs, next_ino, signer, call, now, load, req>>

EmailMessageId(message_id) == EmailBuilderSet("message_id", message_id)

EmailSender(sender) == EmailBuilderSet("sender", sender)

EmailRecipients(value) == EmailBuilderSet("recipients", value)

EmailSubject(subject) == EmailBuilderSet("subject", subject)

EmailBodyHtml(body_html) == EmailBuilderSet("body_html", body_html)

EmailBodyText(body_text) == EmailBuilderSet("body_text", body_text)

EmailReplyTo(reply_to) == EmailBuilderSet("reply_to", reply_to)

EmailHeaders(headers) == EmailBuilderSet("headers", headers)

\* build consumes the builder.
EmailBuilderBuild ==
  /\ email_builder.pc = "open"
  /\ email_builder' = [email_builder EXCEPT !.pc = "built",
                                            !.result = EmailBuild(email_builder.fields)]
  /\ UNCHANGED <<builder, env, recipients, fs, next_ino, signer, call, now, load, req>>

\* struct Recipients of a value built above.
RecipientsValue(r) == [to |-> r.to, cc |-> r.cc, bcc |-> r.bcc]

MessageIds == {<<"m", "1">>}

SenderAddresses == {AddrA, AddrANamed}

RecipientsValues ==
  {RecipientsValue(RecipientsOnly("to", <<AddrB>>)),
   RecipientsValue(RecipientsOnly("cc", <<AddrB, AddrC>>))}

Subjects == {<<>>, <<"H", "i">>}

HtmlBodies == {<<"<", "p", ">">>}

TextBodies == {<<"t", LF>>}

ReplyTos == {<<>>, <<AddrC>>}

HeaderMaps == {{<<<<"X", "-", "A">>, <<"1">>>>}}

NextEmailBuilder ==
  \/ EmailBuilderNew
  \/ \E v \in MessageIds : EmailMessageId(v)
  \/ \E v \in SenderAddresses : EmailSender(v)
  \/ \E v \in RecipientsValues : EmailRecipients(v)
  \/ \E v \in Subjects : EmailSubject(v)
  \/ \E v \in HtmlBodies : EmailBodyHtml(v)
  \/ \E v \in TextBodies : EmailBodyText(v)
  \/ \E v \in ReplyTos : EmailReplyTo(v)
  \/ \E v \in HeaderMaps : EmailHeaders(v)
  \/ EmailBuilderBuild

SpecEmailBuilder == InitConfig /\ [][NextEmailBuilder]_vars

\* The builder holds all that build requires.
HasRequired(f) ==
  /\ f.sender # None
  /\ f.recipients # None
  /\ f.subject # None
  /\ f.body_html # None \/ f.body_text # None

\* C25: EmailBuilder::build succeeds exactly when sender, recipients and
\* subject are set and at least one of body_html and body_text is set;
\* otherwise it returns ConfigError and no Email. The Email it builds has a
\* sender with an empty compartment_id and the sender address given, and
\* carries the recipients, the subject and every optional field as set.
C25_BuildNeedsSenderRecipientsSubjectBody ==
  email_builder.pc = "built" =>
    LET f == email_builder.fields
        r == email_builder.result
    IN  IF HasRequired(f)
        THEN /\ r.kind = "Ok"
             /\ r.email # None
             /\ r.email[1].sender.compartment_id = <<>>
             /\ r.email[1].sender.sender_address = f.sender[1]
             /\ r.email[1].recipients = f.recipients[1]
             /\ r.email[1].subject = f.subject[1]
             /\ r.email[1].message_id = f.message_id
             /\ r.email[1].body_html = f.body_html
             /\ r.email[1].body_text = f.body_text
             /\ r.email[1].reply_to = f.reply_to
             /\ r.email[1].headers = f.headers
        ELSE /\ r.kind = "Err"
             /\ r.err = "ConfigError"
             /\ r.email = None

\* An Email built with a text body only, an empty subject, a reply-to list
\* and no message id or headers.
C25_Witness ==
  /\ email_builder.pc = "built"
  /\ email_builder.result.kind = "Ok"
  /\ email_builder.fields.body_html = None
  /\ email_builder.fields.body_text # None
  /\ email_builder.fields.subject = Some(<<>>)
  /\ email_builder.fields.reply_to = Some(<<AddrC>>)
  /\ email_builder.fields.message_id = None
  /\ email_builder.result.email[1].headers = None


\* ---------------------------------------------------------------------------
\* One signer's temp file against the other signers (C26)
\* ---------------------------------------------------------------------------

\* The step ends signer s: it is dropped, or its construction fails.
Ends(s) ==
  /\ signer[s].pc \notin {"dropped", "failed"}
  /\ signer'[s].pc \in {"dropped", "failed"}

\* C26: a step in which one signer is dropped, or in which one construction
\* fails, deletes no file but that signer's own temp file: the temp file of
\* every other live signer built from inline text is there after the step,
\* the same file with the same content.
C26_EndDeletesOnlyOwnTempFile ==
  [][\A s \in Slots :
       Ends(s) =>
         /\ \A p \in DOMAIN fs :
              fs'[p] # fs[p] => HoldsTemp(signer[s]) /\ p = signer[s].temp_path
         /\ \A o \in Slots \ {s} :
              signer[o].pc = "live" /\ signer[o].has_temp =>
                /\ signer'[o] = signer[o]
                /\ fs'[signer[o].temp_path] = fs[signer[o].temp_path]
                /\ fs'[signer[o].temp_path].exists
                /\ fs'[signer[o].temp_path].content = signer[o].config.private_key]_vars

\* Signer 1 was dropped, or failed with its temp file staged, while signer
\* 2, whose temp file is the older one, was live: the file of signer 1 is
\* gone and the file of signer 2 is there.
C26_Witness ==
  /\ signer[1].pc \in {"dropped", "failed"}
  /\ signer[1].has_temp
  /\ signer[2].pc = "live"
  /\ signer[2].has_temp
  /\ signer[2].temp_ino < signer[1].temp_ino
  /\ signer[1].temp_path # signer[2].temp_path
  /\ ~fs[signer[1].temp_path].exists
  /\ TempFileExists(signer[2])


\* ---------------------------------------------------------------------------
\* The kinds of the errors returned (C27)
\* ---------------------------------------------------------------------------

\* The three kinds of the taxonomy.
TaxonomyKinds == {"ConfigError", "KeyError", "AuthError"}

\* C27: every error returned by KeyLoader::load, by OciSigner::new and by
\* the sign calls is a ConfigError, a KeyError or an AuthError, also when
\* the temp file cannot be created or written during construction from
\* inline text.
C27_ErrorsAreOfTheTaxonomy ==
  /\ load.result.kind = "Err" => load.result.err \in TaxonomyKinds
  /\ \A s \in Slots :
       NewReturned(signer[s]) /\ signer[s].pc = "failed" =>
         signer[s].err \in TaxonomyKinds
  /\ \A t \in Threads :
       call[t].pc = "returned" /\ call[t].result.kind = "Err" =>
         call[t].result.err \in TaxonomyKinds

\* OciSigner::new has failed on inline text before the parse: the temp file
\* could not be created, or could not be written and is gone.
C27_TempStepFailed ==
  \E s \in Slots :
    /\ signer[s].pc = "failed"
    /\ IsPemContent(signer[s].config)
    /\ signer[s].err = "Other"
    /\ \A p \in TmpPaths : fs[p].exists => \E o \in Slots \ {s} : HoldsTemp(signer[o])


\* ---------------------------------------------------------------------------
\* KeyLoader::load on its own results, and key files through ConfigLoader
\* ---------------------------------------------------------------------------

\* The text load returned is passed to load again, as build_config_from_section
\* does when it hands the loaded key to OciConfigBuilder::private_key.
LoadAgain ==
  /\ load.pc = "returned"
  /\ load.result.kind = "Ok"
  /\ load' = [pc |-> "reloaded", input |-> load.result.text,
              result |-> Load(fs, load.result.text)]
  /\ UNCHANGED <<builder, env, recipients, email_builder, fs, next_ino, signer, call, now, req>>

LoadAgainConsume ==
  /\ load.pc = "reloaded"
  /\ load' = NoLoad
  /\ UNCHANGED <<builder, env, recipients, email_builder, fs, next_ino, signer, call, now, req>>

\* The key file of the configuration file holds any of the texts.
InitReload ==
  /\ \E text \in LoadFileTexts :
       fs = [p \in AllPaths \cup {PathOciConfig} |->
               IF p = PathOciConfig
               THEN [exists |-> TRUE, content |-> IniFull, owner_only |-> TRUE, ino |-> 3]
               ELSE IF p = PathKeyA THEN [InitFs[p] EXCEPT !.content = text]
               ELSE InitFs[p]]
  /\ next_ino = 4
  /\ signer = [s \in Slots |-> NoSigner]
  /\ call = [t \in Threads |-> NoCall]
  /\ now = 1
  /\ load = NoLoad
  /\ req = [t \in Threads |-> NoReq]
  /\ builder = NoBuilder
  /\ env = NoEnv
  /\ recipients = NoRecipients
  /\ email_builder = NoEmailBuilder

NextReload ==
  \/ \E input \in LoadInputs : LoadCall(input)
  \/ LoadConsume
  \/ LoadAgain
  \/ LoadAgainConsume
  \/ BuilderConfig(PathOciConfig)
  \/ BuilderNew

SpecReload == InitReload /\ [][NextReload]_vars

\* The builder's last call was config on the configuration file.
ConfigCalled ==
  /\ builder.log # <<>>
  /\ builder.log[Len(builder.log)] = <<"config", PathOciConfig>>

KeyFileText == FileAt(fs, PathKeyA).content

\* C28: load on a text that load returned succeeds and returns the same
\* text; and every key file that load_from_file accepts loads through
\* ConfigLoader, the configuration holding that file's text.
C28_LoadIsIdempotent ==
  /\ load.pc = "reloaded" =>
       load.result.kind = "Ok" /\ load.result.text = load.input
  /\ ConfigCalled /\ LoadFromFile(fs, PathKeyA).kind = "Ok" =>
       builder.pc = "open" /\ builder.fields.private_key = KeyFileText

\* What does hold: load on a text that load returned, when that text begins
\* after white space with the begin-marker, succeeds and returns the text
\* trimmed; and every key file that load_from_file accepts and whose text
\* begins so loads through ConfigLoader, the configuration holding the
\* file's text trimmed.
LoadAgainTrimsInlineText ==
  /\ load.pc = "reloaded" /\ TakenInline(load.input) =>
       load.result.kind = "Ok" /\ load.result.text = Trim(load.input)
  /\ ConfigCalled /\ LoadFromFile(fs, PathKeyA).kind = "Ok" /\ TakenInline(KeyFileText) =>
       builder.pc = "open" /\ builder.fields.private_key = Trim(KeyFileText)

\* A key file that load_from_file accepts and ConfigLoader does not: its
\* text holds both markers after other text, and the second load takes the
\* text for a path.
C28_KeyFileAcceptedConfigFails ==
  /\ ConfigCalled
  /\ builder.pc = "setter_failed"
  /\ builder.result.err = "KeyError"
  /\ builder.result.why = "not found"
  /\ KeyFileText = PemAfterJunk
  /\ LoadFromFile(fs, PathKeyA).kind = "Ok"

\* ---------------------------------------------------------------------------
\* The loader's and the signer's reading of one key input (C29)
\* ---------------------------------------------------------------------------

\* OciSigner::new on the text that load returned: the config a loader built.
NewOnLoaded(s) ==
  /\ load.pc = "returned"
  /\ load.result.kind = "Ok"
  /\ Construct(s, {OciConfig(IdentityX, load.result.text)})

\* Keys go to the loader and to OciSigner::new, as the caller wrote them or
\* as the loader returned them.
NextClassify ==
  \/ \E input \in LoadInputs : LoadCall(input)
  \/ LoadConsume
  \/ Construct(1, {OciConfig(IdentityX, input) : input \in LoadInputs})
  \/ NewOnLoaded(1)
  \/ DropSigner(1)

SpecClassify == InitLoad /\ [][NextClassify]_vars

\* The step is the first of OciSigner::new for slot s.
NewBegins(s) ==
  /\ signer[s].pc = "unborn"
  /\ signer'[s].pc # "unborn"
  /\ signer'[s].err # "HttpError"

\* After the step the construction is on the inline branch: the temp file
\* is created, or could not be.
OnInlineBranch(sg) == sg.pc = "temp_created" \/ (sg.pc = "failed" /\ sg.err = "Other")

\* load treats the input as inline content: it does not look at a file.
LoaderTakesInline(input) == Load(fs, input).touched = {}

\* The text in the config is what load returned for a path.
LoadedFromPath(key) ==
  /\ load.pc = "returned"
  /\ load.result.kind = "Ok"
  /\ load.result.touched # {}
  /\ load.result.text = key

ClientCompartment(config) ==
  IF config.compartment_id # NoneText THEN config.compartment_id ELSE config.tenancy_id

\* The email as send is to leave it: an empty sender compartment id becomes
\* the client's, any other stays.
Adjusted(email, config) ==
  IF email.sender_compartment_id = <<>>
  THEN [email EXCEPT !.sender_compartment_id = ClientCompartment(config)]
  ELSE email

\* C30: send puts the client's compartment id into the sender exactly when
\* the sender's compartment_id is empty and leaves any other unchanged; the
\* client's compartment id is the configured compartment_id when one is
\* set and the tenancy_id otherwise; the body that is signed and the body
\* that is sent are the serialization of the email so adjusted.
C30_SendFillsEmptyCompartment ==
  \A t \in Threads :
    req[t].op = "send" /\ req[t].pc \in {"built", "sent"} =>
      LET body == SerializeEmail(Adjusted(req[t].email[1], signer[req[t].signer].config))
      IN  /\ req[t].body = body
          /\ call[t].pc # "idle" => call[t].has_body /\ call[t].body = body
          /\ req[t].pc = "sent" => req[t].http.has_body /\ req[t].http.body = body

\* An email without a sender compartment id was sent by a client whose
\* configuration has a compartment id: the body sent names that id.
C30_Witness ==
  \E t \in Threads :
    /\ req[t].op = "send"
    /\ req[t].pc = "sent"
    /\ req[t].email[1].sender_compartment_id = <<>>
    /\ signer[req[t].signer].config = CfgCompartment
    /\ req[t].http.body =
         SerializeEmail([req[t].email[1] EXCEPT !.sender_compartment_id = <<"c", "7">>])

====
